---- MODULE Spec2Model ----
(***************************************************************************)
(* A model of evm-proxy-tools: the bytecode shape matchers, the            *)
(* taint-seeded database, the call/SLOAD inspector, the three-run dynamic  *)
(* detector, the top-level detector get_proxy_type, the implementation     *)
(* reader get_proxy_implementation and the walker of the proxy_tools       *)
(* binary.  Spec is get_proxy_type and its caller, SpecRead the reader     *)
(* called on any Dispatch, SpecWalk the walker with both.                  *)
(*                                                                         *)
(* Byte strings (contract code, calldata, memory) are sequences over       *)
(* 0..255.  An Address is a 20-byte sequence and a U256 a 32-byte          *)
(* big-endian sequence: TLC's integers are 32 bits wide, so wide values    *)
(* are kept as their bytes and arithmetic on them is done bytewise.        *)
(***************************************************************************)
EXTENDS Integers, Sequences, FiniteSets, TLC

----------------------------------------------------------------------------
(* The state *)

VARIABLES
    code,           \* the bytes get_proxy_type is called on
    shared_buffer,  \* whether the interpreter hands call input to the
                    \* inspector as CallInput::SharedBuffer (fixed per build)
    session,        \* which call of get_proxy_type on this code is running
    prev_result,    \* what the previous call returned
    pc,             \* "extended", "minimal", "dynamic", "done", "panicked"
    ext_res,        \* ExtendedStaticProxy::try_match's result, once run
    min_res,        \* MinimalProxy::try_match's result, once run
    dyn_res,        \* StorageSlotProxy::try_match's result, once run
    result,         \* what get_proxy_type returned
    runs,           \* get_proxy: the InspectorData of the probes run so far
    db,             \* trace_calldata: the probe's ProxyDetectDB
    inspector,      \* trace_calldata: the probe's ProxyInspector
    frames,         \* the interpreter's call frames, innermost last
    loaded,         \* the slots the interpreter's journal holds already
    steps,          \* instructions executed in the probe so far
    walk_address,   \* the address the walker is at, and the reader's argument
    walk_pc,        \* the walker: "fetch", "detect", "read", or how it ended
    hops,           \* how many External dispatches the walker has followed
    proxy_dispatch, \* get_proxy_implementation: the Dispatch it is called on
    read_pc,        \* the reader: "start", "storage", "multiple", "facets",
                    \* "done"
    reads,          \* the get_storage_at calls issued, one per slot, each
                    \* with the provider's reply once it has arrived
    facets,         \* the provider's reply to the facets() call
    proxy_impl,     \* what get_proxy_implementation returned
    args_block,     \* the walker's --block argument (args.block)
    fetched         \* the get_code calls the walker has made, in order

\* The state of the reader and of the walker.
io_vars == << walk_address, walk_pc, hops, proxy_dispatch, read_pc, reads,
             facets, proxy_impl, args_block, fetched >>

\* The state of one get_proxy_type call and of its caller.
detect_vars == << code, shared_buffer, session, prev_result, pc, ext_res,
                 min_res, dyn_res, result, runs, db, inspector, frames,
                 loaded, steps >>

vars == << detect_vars, io_vars >>

----------------------------------------------------------------------------
(* Bytes, slices, options *)

Min(a, b) == IF a <= b THEN a ELSE b

Max(a, b) == IF a >= b THEN a ELSE b

Repeat(b, n) == [i \in 1..n |-> b]

\* Rust's s[from..to]: 0-based, half-open.  Only used where InRange holds.
Slice(s, from, to) == SubSeq(s, from + 1, to)

\* The condition under which Rust's s[from..to] does not panic.
InRange(s, from, to) == from <= to /\ to <= Len(s)

None == [tag |-> "None"]

\* The outcome of a Rust panic (index out of range): the call never returns.
Panic == [tag |-> "Panic"]

SomeAddr(a) == [tag |-> "Some", addr |-> a]

Detected(kind, dispatch) == [tag |-> "Some", kind |-> kind, dispatch |-> dispatch]

Static(a) == [tag |-> "Static", addr |-> a]

Storage(s) == [tag |-> "Storage", slot |-> s]

\* Option::or_else; a panic in the first operand propagates.
OrElse(a, b) == IF a.tag = "None" THEN b ELSE a

\* twoway::find_bytes: the index of the first occurrence of needle, if any.
find_bytes(haystack, needle) ==
    LET hits == {i \in 0..(Len(haystack) - Len(needle)) :
                    Slice(haystack, i, i + Len(needle)) = needle}
    IN IF hits = {} THEN None
       ELSE [tag |-> "Some", index |-> CHOOSE i \in hits : \A j \in hits : i <= j]

\* U256::from(n) for a small n: 32 big-endian bytes.
U256From(n) ==
    [i \in 1..32 |-> IF i = 32 THEN n % 256
                     ELSE IF i = 31 THEN (n \div 256) % 256
                     ELSE IF i = 30 THEN (n \div 65536) % 256
                     ELSE 0]

\* a > b on U256 values: big-endian bytes compare lexicographically.
U256Gt(a, b) ==
    \E i \in 1..32 : a[i] > b[i] /\ \A j \in 1..(i - 1) : a[j] = b[j]

----------------------------------------------------------------------------
(* consts.rs and the byte literals of detect.rs *)

EIP_1667_LONG_FIRST_BYTES ==
    << \h36, \h3d, \h3d, \h37, \h3d, \h3d, \h3d, \h36, \h3d, \h73 >>

EIP_1667_SHORT_FIRST_BYTES ==
    << \h36, \h3d, \h3d, \h37, \h3d, \h3d, \h3d, \h36, \h3d, \h6f >>

EIP_1667_SECOND_BYTES ==
    << \h5a, \hf4, \h3d, \h82, \h80, \h3e, \h90, \h3d, \h91, \h60, \h2b, \h57,
       \hfd, \h5b, \hf3 >>

EIP_7511_LONG_FIRST_BYTES ==
    << \h36, \h5f, \h5f, \h37, \h5f, \h5f, \h36, \h5f, \h73 >>

EIP_7511_SHORT_FIRST_BYTES ==
    << \h36, \h5f, \h5f, \h37, \h5f, \h5f, \h36, \h5f, \h6f >>

EIP_7511_SECOND_BYTES ==
    << \h5a, \hf4, \h3d, \h5f, \h5f, \h3e, \h5f, \h3d, \h91, \h60, \h2a, \h57,
       \hfd, \h5b, \hf3 >>

EIP_3448_LONG_FIRST_BYTES ==
    << \h36, \h3d, \h3d, \h37, \h3d, \h3d, \h3d, \h3d, \h60, \h36, \h80, \h38,
       \h03, \h80, \h91, \h36, \h39, \h36, \h01, \h3d, \h73 >>

EIP_3448_SHORT_FIRST_BYTES ==
    << \h36, \h3d, \h3d, \h37, \h3d, \h3d, \h3d, \h3d, \h60, \h36, \h80, \h38,
       \h03, \h80, \h91, \h36, \h39, \h36, \h01, \h3d, \h6f >>

EIP_3448_SECOND_BYTES ==
    << \h5a, \hf4, \h3d, \h3d, \h93, \h80, \h3e, \h60, \h34, \h57, \hfd, \h5b,
       \hf3 >>

ZERO_AGE_FIRST ==
    << \h3d, \h3d, \h3d, \h3d, \h36, \h3d, \h3d, \h37, \h36, \h3d, \h73 >>

ZERO_AGE_SECOND ==
    << \h5a, \hf4, \h3d, \h3d, \h93, \h80, \h3e, \h60, \h2a, \h57, \hfd, \h5b,
       \hf3 >>

SOLADY_PUSH0_FIRST ==
    << \h5f, \h5f, \h36, \h5f, \h5f, \h37, \h36, \h5f, \h73 >>

SOLADY_PUSH0_SECOND ==
    << \h5a, \hf4, \h3d, \h5f, \h5f, \h3e, \h60, \h29, \h57, \h3d, \h5f, \hfd,
       \h5b, \h3d, \h5f, \hf3 >>

VYPER_BETA_FIRST ==
    << \h36, \h60, \h00, \h60, \h00, \h37, \h61, \h10, \h00, \h60, \h00, \h36,
       \h60, \h00, \h73 >>

VYPER_BETA_SECOND ==
    << \h5a, \hf4, \h15, \h58, \h57, \h61, \h10, \h00, \h60, \h00, \hf3 >>

SEQUENCE_WALLET_BYTECODE ==
    << \h36, \h3d, \h3d, \h37, \h3d, \h3d, \h3d, \h36, \h3d, \h30, \h54, \h5a,
       \hf4, \h3d, \h82, \h80, \h3e, \h90, \h3d, \h91, \h60, \h18, \h57, \hfd,
       \h5b, \hf3 >>

ZERO_X_SPLITS_FIRST ==
    << \h36, \h60, \h30, \h57, \h34, \h3d, \h52, \h30, \h7f, \h83, \h0d, \h2d,
       \h70, \h0a, \h97, \haf, \h57, \h4b, \h18, \h6c, \h80, \hd4, \h04, \h29,
       \h38, \h5d, \h24, \h24, \h15, \h65, \hb0, \h8a, \h7c, \h55, \h9b, \ha2,
       \h83, \ha9, \h64, \hd9, \hb1, \h60, \h20, \h3d, \ha2, \h3d, \h3d, \hf3,
       \h5b, \h3d, \h3d, \h3d, \h3d, \h36, \h3d, \h3d, \h37, \h36, \h3d, \h73 >>

ZERO_X_SPLITS_SECOND ==
    << \h5a, \hf4, \h3d, \h3d, \h93, \h80, \h3e, \h60, \h5b, \h57, \hfd, \h5b,
       \hf3 >>

CWIA_FIRST ==
    << \h3d, \h3d, \h3d, \h3d, \h36, \h3d, \h3d, \h37, \h61 >>

CWIA_SECOND ==
    << \h5a, \hf4, \h3d, \h3d, \h93, \h80, \h3e, \h60, \h57, \hfd, \h5b, \hf3 >>

GNOSIS_SAFE_MASTERCOPY_SELECTOR ==
    << \ha6, \h19, \h48, \h6e >>

COMPTROLLER_IMPL_SELECTOR ==
    << \hbb, \h82, \haa, \h5e >>

DIAMOND_FACETS_MARKER ==
    << \h63, \h7a, \h0e, \hd6, \h27 >>

DIAMOND_STANDARD_STORAGE_SLOT_LESSBYTES ==
    << \hc8, \hfc, \had, \h8d, \hb8, \h4d, \h3c, \hc1, \h8b, \h4c, \h41, \hd5,
       \h51, \hea, \h0e, \he6, \h6d, \hd5, \h99, \hcd, \he0, \h68, \hd9, \h98,
       \he5, \h7d, \h5e, \h09, \h33, \h2c, \h13 >>

EIP_1967_ZOS_SLOT ==
    << \h70, \h50, \hc9, \he0, \hf4, \hca, \h76, \h9c, \h69, \hbd, \h3a, \h8e,
       \hf7, \h40, \hbc, \h37, \h93, \h4f, \h8e, \h2c, \h03, \h6e, \h5a, \h72,
       \h3f, \hd8, \hee, \h04, \h8e, \hd3, \hf8, \hc3 >>

EIP_1967_SLOT ==
    << \h36, \h08, \h94, \ha1, \h3b, \ha1, \ha3, \h21, \h06, \h67, \hc8, \h28,
       \h49, \h2d, \hb9, \h8d, \hca, \h3e, \h20, \h76, \hcc, \h37, \h35, \ha9,
       \h20, \ha3, \hca, \h50, \h5d, \h38, \h2b, \hbc >>

EIP_1967_BEACON_SLOT ==
    << \ha3, \hf0, \had, \h74, \he5, \h42, \h3a, \heb, \hfd, \h80, \hd3, \hef,
       \h43, \h46, \h57, \h83, \h35, \ha9, \ha7, \h2a, \hea, \hee, \h59, \hff,
       \h6c, \hb3, \h58, \h2b, \h35, \h13, \h3d, \h50 >>

EIP_1822_SLOT ==
    << \hc5, \hf1, \h6f, \h0f, \hcc, \h63, \h9f, \ha4, \h8a, \h69, \h47, \h83,
       \h6d, \h98, \h50, \hf5, \h04, \h79, \h85, \h23, \hbf, \h8c, \h9a, \h3a,
       \h87, \hd5, \h87, \h6c, \hf6, \h22, \hbc, \hf7 >>

ADDR_MASK ==
    << \h00, \h00, \h00, \h00, \h00, \h00, \h00, \h00, \h00, \h00, \h00, \h00,
       \hff, \hff, \hff, \hff, \hff, \hff, \hff, \hff, \hff, \hff, \hff, \hff,
       \hff, \hff, \hff, \hff, \hff, \hff, \hff, \hff >>

ADDR_XOR ==
    << \h00, \h00, \h00, \h00, \h00, \h00, \h00, \h00, \h00, \h00, \h00, \h00,
       \hc1, \hd5, \h0e, \h94, \hdb, \he4, \h4a, \h2e, \h35, \h95, \hf7, \hd5,
       \h31, \h1d, \h78, \h80, \h76, \hac, \h61, \h88 >>

DEFAULT_CONTRACT_ADDRESS ==
    << \h00, \hff, \h00, \h00, \hff, \h00, \h00, \hff, \h00, \h00, \hff, \h00,
       \h00, \hff, \h00, \h00, \hff, \h00, \h00, \hff >>

EIP_6551_SIZE == 173

EIP_1167_SIZE == 45

\* GNOSIS_SAFE_STORAGE_SLOT = U256::ZERO
GNOSIS_SAFE_STORAGE_SLOT == U256From(0)

\* COMPOUND_UNITROLLER_STORAGE_SLOT = U256::from(2)
COMPOUND_UNITROLLER_STORAGE_SLOT == U256From(2)

----------------------------------------------------------------------------
(* detect.rs: the shape matchers *)

\* A faulty extract_minimal_contract that lets a code one byte short of
\* min_size through its length guard.
extract_minimal_contract_lax(ADDR_SIZE, code_, min_size, first_part, second_part) ==
    LET second_start == Len(first_part) + ADDR_SIZE
    IN IF ~(Len(code_) >= min_size - 1) THEN None
       ELSE IF ~InRange(code_, 0, Len(first_part)) THEN Panic
       ELSE IF Slice(code_, 0, Len(first_part)) # first_part THEN None
       ELSE IF ~InRange(code_, second_start, second_start + Len(second_part))
            THEN Panic
       ELSE IF Slice(code_, second_start, second_start + Len(second_part))
                 # second_part
            THEN None
       ELSE LET addr == Slice(code_, Len(first_part), second_start)
            IN IF ADDR_SIZE = 16
               THEN SomeAddr(Repeat(0, 4) \o addr)
               ELSE SomeAddr(addr)

\* A faulty extract_minimal_contract with no length guard at all.
extract_minimal_contract_unguarded(ADDR_SIZE, code_, min_size, first_part, second_part) ==
    LET second_start == Len(first_part) + ADDR_SIZE
    IN IF ~InRange(code_, 0, Len(first_part)) THEN Panic
       ELSE IF Slice(code_, 0, Len(first_part)) # first_part THEN None
       ELSE IF ~InRange(code_, second_start, second_start + Len(second_part))
            THEN Panic
       ELSE IF Slice(code_, second_start, second_start + Len(second_part))
                 # second_part
            THEN None
       ELSE LET addr == Slice(code_, Len(first_part), second_start)
            IN IF ADDR_SIZE = 16
               THEN SomeAddr(Repeat(0, 4) \o addr)
               ELSE SomeAddr(addr)

\* A faulty extract_minimal_contract that pads a 16-byte address on the
\* right.
extract_minimal_contract_rightpad(ADDR_SIZE, code_, min_size, first_part, second_part) ==
    LET second_start == Len(first_part) + ADDR_SIZE
    IN IF ~(Len(code_) >= min_size) THEN None
       ELSE IF ~InRange(code_, 0, Len(first_part)) THEN Panic
       ELSE IF Slice(code_, 0, Len(first_part)) # first_part THEN None
       ELSE IF ~InRange(code_, second_start, second_start + Len(second_part))
            THEN Panic
       ELSE IF Slice(code_, second_start, second_start + Len(second_part))
                 # second_part
            THEN None
       ELSE LET addr == Slice(code_, Len(first_part), second_start)
            IN IF ADDR_SIZE = 16
               THEN SomeAddr(addr \o Repeat(0, 4))
               ELSE SomeAddr(addr)

\* extract_minimal_contract::<ADDR_SIZE>.  The && chain short-circuits, and a
\* slice that runs past the end of code panics.
extract_minimal_contract(ADDR_SIZE, code_, min_size, first_part, second_part) ==
    LET second_start == Len(first_part) + ADDR_SIZE
    IN IF ~(Len(code_) >= min_size) THEN None
       ELSE IF ~InRange(code_, 0, Len(first_part)) THEN Panic
       ELSE IF Slice(code_, 0, Len(first_part)) # first_part THEN None
       ELSE IF ~InRange(code_, second_start, second_start + Len(second_part))
            THEN Panic
       ELSE IF Slice(code_, second_start, second_start + Len(second_part))
                 # second_part
            THEN None
       ELSE LET addr == Slice(code_, Len(first_part), second_start)
            IN IF ADDR_SIZE = 16
               THEN SomeAddr(Repeat(0, 4) \o addr)
               ELSE SomeAddr(addr)

is_eip_1667_long(code_) ==
    extract_minimal_contract(20, code_, 45, EIP_1667_LONG_FIRST_BYTES,
                             EIP_1667_SECOND_BYTES)

is_eip_1667_short(code_) ==
    extract_minimal_contract(16, code_, 41, EIP_1667_SHORT_FIRST_BYTES,
                             EIP_1667_SECOND_BYTES)

is_eip_7511_long(code_) ==
    extract_minimal_contract(20, code_, 44, EIP_7511_LONG_FIRST_BYTES,
                             EIP_7511_SECOND_BYTES)

is_eip_7511_short(code_) ==
    extract_minimal_contract(16, code_, 40, EIP_7511_SHORT_FIRST_BYTES,
                             EIP_7511_SECOND_BYTES)

is_eip_3448_long(code_) ==
    extract_minimal_contract(20, code_, 44, EIP_3448_LONG_FIRST_BYTES,
                             EIP_3448_SECOND_BYTES)

is_eip_3448_short(code_) ==
    extract_minimal_contract(16, code_, 44, EIP_3448_SHORT_FIRST_BYTES,
                             EIP_3448_SECOND_BYTES)

is_eip_3448(code_) == OrElse(is_eip_3448_long(code_), is_eip_3448_short(code_))

is_eip_7511(code_) == OrElse(is_eip_7511_long(code_), is_eip_7511_short(code_))

is_eip_1667(code_) == OrElse(is_eip_1667_long(code_), is_eip_1667_short(code_))

\* if-let over an Option<Address>: Some gives (kind, Static(address)), None
\* falls through to rest, and a panic inside the matcher aborts the call.
IfSome(opt, kind, rest) ==
    IF opt.tag = "Panic" THEN Panic
    ELSE IF opt.tag = "Some" THEN Detected(kind, Static(opt.addr))
    ELSE rest

\* impl ProxyDetector for MinimalProxy
MinimalProxy_try_match(code_) ==
    IfSome(is_eip_1667(code_), "Eip1167",
    IfSome(is_eip_7511(code_), "Eip7511",
    IfSome(is_eip_3448(code_), "Eip3448",
    None)))

\* An is_eip_6551 that accepts any code of at least EIP_6551_SIZE bytes.
is_eip_6551_atleast(code_) ==
    IF Len(code_) < EIP_6551_SIZE THEN None
    ELSE IF Len(code_) < EIP_1167_SIZE THEN None
    ELSE LET second_start == Len(EIP_1667_LONG_FIRST_BYTES) + 20
         IN IF ~InRange(code_, 0, Len(EIP_1667_LONG_FIRST_BYTES)) THEN Panic
            ELSE IF Slice(code_, 0, Len(EIP_1667_LONG_FIRST_BYTES))
                      # EIP_1667_LONG_FIRST_BYTES
                 THEN None
            ELSE IF ~InRange(code_, second_start,
                             second_start + Len(EIP_1667_SECOND_BYTES))
                 THEN Panic
            ELSE IF Slice(code_, second_start,
                          second_start + Len(EIP_1667_SECOND_BYTES))
                      # EIP_1667_SECOND_BYTES
                 THEN None
            ELSE LET impl_addr ==
                         Slice(code_, Len(EIP_1667_LONG_FIRST_BYTES), second_start)
                     data_section == Slice(code_, EIP_1167_SIZE, Len(code_))
                 IN IF Len(data_section) < 128 THEN None
                    ELSE [tag |-> "Some",
                          implementation |-> impl_addr,
                          chain_id |-> Slice(data_section, 32, 64),
                          token_contract |-> Slice(data_section, 76, 96),
                          token_id |-> Slice(data_section, 96, 128)]

\* ExtendedStaticProxy::is_eip_6551
is_eip_6551(code_) ==
    IF Len(code_) # EIP_6551_SIZE THEN None
    ELSE IF Len(code_) < EIP_1167_SIZE THEN None
    ELSE LET second_start == Len(EIP_1667_LONG_FIRST_BYTES) + 20
         IN IF ~InRange(code_, 0, Len(EIP_1667_LONG_FIRST_BYTES)) THEN Panic
            ELSE IF Slice(code_, 0, Len(EIP_1667_LONG_FIRST_BYTES))
                      # EIP_1667_LONG_FIRST_BYTES
                 THEN None
            ELSE IF ~InRange(code_, second_start,
                             second_start + Len(EIP_1667_SECOND_BYTES))
                 THEN Panic
            ELSE IF Slice(code_, second_start,
                          second_start + Len(EIP_1667_SECOND_BYTES))
                      # EIP_1667_SECOND_BYTES
                 THEN None
            ELSE LET impl_addr ==
                         Slice(code_, Len(EIP_1667_LONG_FIRST_BYTES), second_start)
                     data_section == Slice(code_, EIP_1167_SIZE, Len(code_))
                 IN IF Len(data_section) < 128 THEN None
                    ELSE [tag |-> "Some",
                          implementation |-> impl_addr,
                          chain_id |-> Slice(data_section, 32, 64),
                          token_contract |-> Slice(data_section, 76, 96),
                          token_id |-> Slice(data_section, 96, 128)]

is_zero_age(code_) ==
    extract_minimal_contract(20, code_, 44, ZERO_AGE_FIRST, ZERO_AGE_SECOND)

is_solady_push0(code_) ==
    extract_minimal_contract(20, code_, 44, SOLADY_PUSH0_FIRST, SOLADY_PUSH0_SECOND)

is_vyper_beta(code_) ==
    extract_minimal_contract(20, code_, 46, VYPER_BETA_FIRST, VYPER_BETA_SECOND)

is_sequence_wallet(code_) == code_ = SEQUENCE_WALLET_BYTECODE

is_zero_x_splits(code_) ==
    LET first_len == Len(ZERO_X_SPLITS_FIRST)
        addr_end  == first_len + 20
        min_size  == addr_end + Len(ZERO_X_SPLITS_SECOND)
    IN IF Len(code_) < min_size THEN None
       ELSE IF Slice(code_, 0, first_len) # ZERO_X_SPLITS_FIRST THEN None
       ELSE IF Slice(code_, addr_end, addr_end + Len(ZERO_X_SPLITS_SECOND))
                 # ZERO_X_SPLITS_SECOND
            THEN None
       ELSE SomeAddr(Slice(code_, first_len, addr_end))

is_cwia(code_) ==
    IF Len(code_) < 60 THEN None
    ELSE IF Slice(code_, 0, Len(CWIA_FIRST)) # CWIA_FIRST THEN None
    ELSE LET addr_start == Len(CWIA_FIRST) + 4 + 8
             addr_end   == addr_start + 20
         IN IF Len(code_) < addr_start + 20 + Len(CWIA_SECOND) THEN None
            ELSE IF find_bytes(code_, CWIA_SECOND).tag = "None" THEN None
            ELSE SomeAddr(Slice(code_, addr_start, addr_end))

is_gnosis_safe(code_) ==
    find_bytes(code_, GNOSIS_SAFE_MASTERCOPY_SELECTOR).tag = "Some"

is_compound_unitroller(code_) ==
    find_bytes(code_, COMPTROLLER_IMPL_SELECTOR).tag = "Some"

\* impl ProxyDetector for ExtendedStaticProxy
ExtendedStaticProxy_try_match(code_) ==
    LET e == is_eip_6551(code_)
    IN IF e.tag = "Panic" THEN Panic
       ELSE IF e.tag = "Some"
       THEN Detected("Eip6551",
                     [tag |-> "Static6551",
                      implementation |-> e.implementation,
                      chain_id |-> e.chain_id,
                      token_contract |-> e.token_contract,
                      token_id |-> e.token_id])
       ELSE
       IfSome(is_zero_age(code_), "ZeroAgeMinimal",
       IfSome(is_solady_push0(code_), "SoladyPush0",
       IfSome(is_vyper_beta(code_), "VyperBeta",
       IF is_sequence_wallet(code_)
       THEN Detected("SequenceWallet", [tag |-> "SelfAddressSlot"])
       ELSE
       IfSome(is_zero_x_splits(code_), "ZeroXSplitsClones",
       IfSome(is_cwia(code_), "ClonesWithImmutableArgs",
       IF is_gnosis_safe(code_)
       THEN Detected("GnosisSafe", Storage(GNOSIS_SAFE_STORAGE_SLOT))
       ELSE IF is_compound_unitroller(code_)
       THEN Detected("CompoundUnitroller",
                     Storage(COMPOUND_UNITROLLER_STORAGE_SLOT))
       ELSE None)))))

----------------------------------------------------------------------------
(* 256-bit words, bytewise *)

RECURSIVE XorBits(_, _, _)
\* The exclusive or of the low n bits of two numbers.
XorBits(a, b, n) ==
    IF n = 0 THEN 0
    ELSE ((a + b) % 2) + 2 * XorBits(a \div 2, b \div 2, n - 1)

RECURSIVE AndBits(_, _, _)
AndBits(a, b, n) ==
    IF n = 0 THEN 0
    ELSE ((a % 2) * (b % 2)) + 2 * AndBits(a \div 2, b \div 2, n - 1)

\* U256::bitxor and U256::bitand
BitXor(a, b) == [i \in 1..32 |-> XorBits(a[i], b[i], 8)]

BitAnd(a, b) == [i \in 1..32 |-> AndBits(a[i], b[i], 8)]

RECURSIVE Carry(_, _, _)
\* The carry into byte i of a + b (byte 32 is the least significant).
Carry(a, b, i) ==
    IF i = 32 THEN 0
    ELSE (a[i + 1] + b[i + 1] + Carry(a, b, i + 1)) \div 256

\* a + b modulo 2^256
WordAdd(a, b) == [i \in 1..32 |-> (a[i] + b[i] + Carry(a, b, i)) % 256]

RECURSIVE Borrow(_, _, _)
\* The borrow out of byte i + 1 of a - b.
Borrow(a, b, i) ==
    IF i = 32 THEN 0
    ELSE IF a[i + 1] - b[i + 1] - Borrow(a, b, i + 1) < 0 THEN 1 ELSE 0

\* a - b modulo 2^256
WordSub(a, b) == [i \in 1..32 |-> (a[i] - b[i] - Borrow(a, b, i) + 256) % 256]

WordZero == U256From(0)

WordOne == U256From(1)

\* A word that fits 24 bits, and then its value as a number.
IsSmall(w) == \A i \in 1..29 : w[i] = 0

IntOf(w) == w[30] * 65536 + w[31] * 256 + w[32]

\* Left-pad a byte string of at most 32 bytes to a word (PUSHn, an address).
ToWord(bs) == Repeat(0, 32 - Len(bs)) \o bs

\* The low 160 bits of a word as an Address (Address::from_word).
AddressFromWord(w) == SubSeq(w, 13, 32)

\* The bytes [off, off + size) of a byte string, zero beyond its end
\* (memory, calldata and code all read as zero past their length).
ReadPadded(bs, off, size) ==
    [i \in 1..size |-> IF off + i <= Len(bs) THEN bs[off + i] ELSE 0]

\* The same where the offset is a word: a large offset reads zeros.
ReadAt(bs, offw, size) ==
    IF IsSmall(offw) THEN ReadPadded(bs, IntOf(offw), size) ELSE Repeat(0, size)

\* Memory after writing data at off (memory grows, zero filled).
MemWrite(mem, off, data) ==
    [i \in 1..Max(Len(mem), off + Len(data)) |->
        IF i > off /\ i <= off + Len(data) THEN data[i - off]
        ELSE IF i <= Len(mem) THEN mem[i] ELSE 0]

----------------------------------------------------------------------------
(* utils.rs *)

\* slice_as_u32_be.  A u32 is kept as its two 16-bit halves <<high, low>>:
\* (a0 << 24) + (a1 << 16) + (a2 << 8) + a3.
slice_as_u32_be(array) ==
    << array[1] * 256 + array[2], array[3] * 256 + array[4] >>

\* FUN_TO_PROXY: the selectors that mark an external proxy (0xcdffacc6).
FUN_TO_PROXY == { << \hcdff, \hacc6 >> }

----------------------------------------------------------------------------
(* proxy_inspector.rs: ProxyDetectDB and ProxyInspector *)

\* A HashMap as a set of [key, val] entries with distinct keys.
MapInsert(m, k, v) == {e \in m : e.key # k} \cup {[key |-> k, val |-> v]}

MapHas(m, k) == \E e \in m : e.key = k

MapGet(m, k) == (CHOOSE e \in m : e.key = k).val

\* An inspector that is kept from one run to the next.
ProxyInspector_kept ==
    IF inspector = [tag |-> "NotRun"]
    THEN [storage_access |-> <<>>, delegatecall_storage |-> <<>>,
          delegatecall_unknown |-> <<>>, external_calls |-> <<>>]
    ELSE inspector

\* ProxyInspector::new (Default)
ProxyInspector_new ==
    [storage_access |-> <<>>, delegatecall_storage |-> <<>>,
     delegatecall_unknown |-> <<>>, external_calls |-> <<>>]

\* ProxyInspector::collect
ProxyInspector_collect(insp) ==
    [storage_access |-> insp.storage_access,
     delegatecall_storage |-> insp.delegatecall_storage,
     delegatecall_unknown |-> insp.delegatecall_unknown,
     external_calls |-> insp.external_calls]

\* A faulty ProxyDetectDB::new that hands back the database of the previous
\* probe when there is one.
ProxyDetectDB_stale(contract_address) ==
    IF db = [tag |-> "NotRun"]
    THEN [contract_address |-> contract_address, code |-> {},
          values_to_storage |-> {}, delegatecalls |-> <<>>]
    ELSE db

\* ProxyDetectDB::new
ProxyDetectDB_new(contract_address) ==
    [contract_address |-> contract_address, code |-> {},
     values_to_storage |-> {}, delegatecalls |-> <<>>]

\* ProxyDetectDB::install_contract
install_contract(db_, address, code_) ==
    [db_ EXCEPT !.code = MapInsert(@, address, code_)]

\* ProxyDetectDB::insert_delegatecall
insert_delegatecall(db_, contract) ==
    [db_ EXCEPT !.delegatecalls = Append(@, contract)]

\* The code every uninstalled, nonzero address is given by basic().
DUMMY_CODE == << \hcc, \haa, \hdd, \hbb >>

\* A basic that hands out uninstalled accounts without their code, leaving it
\* to code_by_hash.
basic_lazy(db_, address) ==
    IF MapHas(db_.code, address)
    THEN [tag |-> "Some", code |-> MapGet(db_.code, address)]
    ELSE IF address = Repeat(0, 20) THEN None
    ELSE [tag |-> "Some"]

\* Database::basic: the code of the account, None for the zero address.
basic(db_, address) ==
    IF MapHas(db_.code, address)
    THEN [tag |-> "Some", code |-> MapGet(db_.code, address)]
    ELSE IF address = Repeat(0, 20) THEN None
    ELSE [tag |-> "Some", code |-> DUMMY_CODE]

\* A storage that XORs the whole index, without reducing it to 160 bits.
storage_unmasked(db_, address, index) ==
    LET magic_value == BitXor(index, ADDR_XOR)
        magic_address == AddressFromWord(magic_value)
    IN [db    |-> [db_ EXCEPT !.values_to_storage =
                                 MapInsert(@, magic_address, index)],
        value |-> magic_value]

\* Database::storage: the sentinel for index, and the database with the
\* sentinel's address recorded against index.
storage(db_, address, index) ==
    LET magic_value   == BitXor(BitAnd(index, ADDR_MASK), ADDR_XOR)
        magic_address == AddressFromWord(magic_value)
    IN [db |-> [db_ EXCEPT !.values_to_storage =
                                MapInsert(@, magic_address, index)],
        value |-> magic_value]

OP_SLOAD == \h54

\* Inspector::step: an SLOAD with something on the stack records its top.
ProxyInspector_step(insp, op, stack) ==
    IF op = OP_SLOAD /\ stack # <<>>
    THEN [insp EXCEPT !.storage_access = Append(@, stack[Len(stack)])]
    ELSE insp

\* A CallOutcome that carries a byte of output.
SyntheticOutcome_echo(call) ==
    [tag |-> "Some", result |-> "Return", output |-> << 1 >>,
     gas |-> call.gas_limit, memory_offset |-> <<0, 0>>]

\* The CallOutcome every intercepted call is answered with.
SyntheticOutcome(call) ==
    [tag |-> "Some", result |-> "Return", output |-> <<>>,
     gas |-> call.gas_limit, memory_offset |-> <<0, 0>>]

\* An Inspector::call that lists the target of every DELEGATECALL as unknown,
\* also when the sentinel map knows it.
ProxyInspector_call_both(insp, db_, call) ==
    IF call.scheme = "Call" /\ call.target_address = db_.contract_address
    THEN [inspector |-> insp, db |-> db_, outcome |-> None]
    ELSE
    LET input_bytes == IF call.input.tag = "Bytes" THEN call.input.bytes
                       ELSE <<>>
    IN IF call.scheme = "DelegateCall"
       THEN LET db1 == [db_ EXCEPT !.delegatecalls =
                                      Append(@, call.bytecode_address)]
                insp0 == [insp EXCEPT !.delegatecall_unknown =
                                         Append(@, call.bytecode_address)]
                insp1 ==
                  IF MapHas(db1.values_to_storage, call.bytecode_address)
                  THEN [insp0 EXCEPT !.delegatecall_storage =
                           Append(@, MapGet(db1.values_to_storage,
                                            call.bytecode_address))]
                  ELSE insp0
            IN [inspector |-> insp1,
                db |-> insert_delegatecall(db1, call.bytecode_address),
                outcome |-> SyntheticOutcome(call)]
       ELSE LET insp1 ==
                  IF Len(input_bytes) >= 4
                  THEN [insp EXCEPT !.external_calls =
                           Append(@, << call.target_address,
                                        slice_as_u32_be(input_bytes) >>)]
                  ELSE insp
            IN [inspector |-> insp1, db |-> db_,
                outcome |-> SyntheticOutcome(call)]

\* Inspector::call.  Gives the inspector and the database after the call and
\* the outcome handed back to the interpreter (None: run the callee).
ProxyInspector_call(insp, db_, call) ==
    IF call.scheme = "Call" /\ call.target_address = db_.contract_address
    THEN [inspector |-> insp, db |-> db_, outcome |-> None]
    ELSE
    LET input_bytes == IF call.input.tag = "Bytes" THEN call.input.bytes
                       ELSE <<>>
    IN IF call.scheme = "DelegateCall"
       THEN LET db1 == [db_ EXCEPT !.delegatecalls =
                                      Append(@, call.bytecode_address)]
                insp1 ==
                  IF MapHas(db1.values_to_storage, call.bytecode_address)
                  THEN [insp EXCEPT !.delegatecall_storage =
                           Append(@, MapGet(db1.values_to_storage,
                                            call.bytecode_address))]
                  ELSE [insp EXCEPT !.delegatecall_unknown =
                           Append(@, call.bytecode_address)]
            IN [inspector |-> insp1,
                db |-> insert_delegatecall(db1, call.bytecode_address),
                outcome |-> SyntheticOutcome(call)]
       ELSE \* Call | CallCode | StaticCall
            LET insp1 ==
                  IF Len(input_bytes) >= 4
                  THEN [insp EXCEPT !.external_calls =
                           Append(@, << call.target_address,
                                        slice_as_u32_be(input_bytes) >>)]
                  ELSE insp
            IN [inspector |-> insp1, db |-> db_,
                outcome |-> SyntheticOutcome(call)]

----------------------------------------------------------------------------
(* The interpreter the detector embeds (revm), for the opcodes the analysed
   codes use.  A frame is [pc, stack, memory, calldata, returndata, code,
   ret_offset, ret_size]; pc is 0-based and the top of the stack is its last
   element. *)

GAS_LIMIT == 30000000

\* The gas of a run pays for about 123,000 words of memory: a memory
\* access that ends beyond this many bytes halts the frame out of gas.
MemLimit == 123000 * 32

\* GAS pushes the gas left, which the model does not track: no analysed code
\* uses the value other than as the gas argument of a call.
GasWord ==
    [i \in 1..32 |-> IF i = 32 THEN GAS_LIMIT % 256
                     ELSE IF i = 31 THEN (GAS_LIMIT \div 256) % 256
                     ELSE IF i = 30 THEN (GAS_LIMIT \div 65536) % 256
                     ELSE IF i = 29 THEN (GAS_LIMIT \div 16777216) % 256
                     ELSE 0]

NewFrame(code_, calldata, ret_offset, ret_size) ==
    [pc |-> 0, stack |-> <<>>, memory |-> <<>>, calldata |-> calldata,
     returndata |-> <<>>, code |-> code_,
     ret_offset |-> ret_offset, ret_size |-> ret_size]

\* The opcode at pc; code reads as STOP (0) past its end.
OpAt(f) == IF f.pc < Len(f.code) THEN f.code[f.pc + 1] ELSE 0

IsPush(op) == op >= \h5f /\ op <= \h7f

IsCallOp(op) == op \in {\hf1, \hf2, \hf4, \hfa}

RECURSIVE JumpDestsFrom(_, _)
\* The positions of the JUMPDEST bytes that are not PUSH data.
JumpDestsFrom(code_, i) ==
    IF i >= Len(code_) THEN {}
    ELSE LET op == code_[i + 1]
         IN IF IsPush(op) THEN JumpDestsFrom(code_, i + 1 + (op - \h5f))
            ELSE (IF op = \h5b THEN {i} ELSE {})
                     \cup JumpDestsFrom(code_, i + 1)

ValidJump(code_, w) == IsSmall(w) /\ IntOf(w) \in JumpDestsFrom(code_, 0)

\* Whether memory [off, off + size) can be paid for.
MemOK(offw, sizew) ==
    sizew = WordZero
    \/ (IsSmall(offw) /\ IsSmall(sizew) /\ IntOf(offw) + IntOf(sizew) <= MemLimit)

\* The k-th word from the top of the stack (1 is the top).
Peek(f, k) == f.stack[Len(f.stack) - k + 1]

\* The frame after popping n words, pushing the words of ws, advancing pc.
PopPush(f, n, ws, adv) ==
    [f EXCEPT !.stack = SubSeq(@, 1, Len(@) - n) \o ws, !.pc = @ + adv]

Halt(how, out) == [kind |-> "halt", how |-> how, output |-> out]

Cont(f) == [kind |-> "next", frame |-> f]

\* The opcodes that are defined but that this interpreter does not cover;
\* no analysed code may execute one (see ModelCoversCode).
Unmodelled ==
    {\h02} \cup (\h04..\h0b) \cup (\h10..\h14) \cup (\h16..\h1e) \cup {\h20}
    \cup {\h32, \h33, \h3a, \h3c} \cup (\h41..\h4a)
    \cup {\h53, \h55, \h59, \h5c, \h5d, \h5e, \hf0, \hf5}

\* How many words an opcode pops and pushes.
Pops(op) ==
    CASE op \in {\h01, \h03} -> 2
      [] op \in {\h15, \h31, \h35, \h3b, \h3f, \h40, \h50, \h51, \h54,
                  \h56, \hff} -> 1
      [] op \in {\h37, \h39, \h3e} -> 3
      [] op \in {\h52, \h57, \hf3, \hfd} -> 2
      [] op \in \h80..\h8f -> op - \h7f
      [] op \in \h90..\h9f -> op - \h8e
      [] op \in \ha0..\ha4 -> op - \h9e
      [] op \in {\hf1, \hf2} -> 7
      [] op \in {\hf4, \hfa} -> 6
      [] OTHER -> 0

Pushes(op) ==
    IF op \in {\h01, \h03, \h15, \h35, \h51, \h54} \/ IsCallOp(op) THEN 1
    ELSE IF op \in {\h31, \h3b, \h3f, \h40} THEN 1
    ELSE IF op \in {\h30, \h34, \h36, \h38, \h3d, \h58, \h5a} \/ IsPush(op) THEN 1
    ELSE IF op \in \h80..\h8f THEN op - \h7e
    ELSE IF op \in \h90..\h9f THEN op - \h8e
    ELSE 0

\* The number of the block the runs execute in: Context::mainnet() keeps the
\* default block environment.
BLOCK_NUMBER == 0

\* Whether BLOCKHASH of the requested block asks the database for the hash:
\* only for the 256 blocks before the current one; otherwise it pushes zero.
block_hash_asked(requested) ==
    /\ IsSmall(requested)
    /\ IntOf(requested) < BLOCK_NUMBER
    /\ BLOCK_NUMBER - IntOf(requested) <= 256

\* A call of one of the two Database methods whose body is todo!().
Todo(method) == [kind |-> "todo", method |-> method]

\* The code of the account at address as an instruction that needs it loads
\* it: the code of the AccountInfo basic gives, code_by_hash when the
\* AccountInfo carries none, nothing for an account that does not exist.
load_account_code(db_, address) ==
    LET info == basic(db_, address)
    IN IF info.tag = "None" THEN [tag |-> "Code", code |-> <<>>]
       ELSE IF "code" \in DOMAIN info THEN [tag |-> "Code", code |-> info.code]
       ELSE [tag |-> "code_by_hash"]

\* One instruction other than SLOAD and the calls, in frame f of the
\* contract at address self.
Exec(f, self) ==
    LET op == OpAt(f)
        a  == Peek(f, 1)
        b  == Peek(f, 2)
        c  == Peek(f, 3)
    IN
    IF Len(f.stack) < Pops(op) THEN Halt("Error", <<>>)            \* underflow
    ELSE IF Len(f.stack) - Pops(op) + Pushes(op) > 1024
         THEN Halt("Error", <<>>)                                  \* overflow
    ELSE
    CASE op = \h00 -> Halt("Stop", <<>>)
      [] op = \h01 -> Cont(PopPush(f, 2, <<WordAdd(a, b)>>, 1))
      [] op = \h03 -> Cont(PopPush(f, 2, <<WordSub(a, b)>>, 1))
      [] op = \h15 ->
            Cont(PopPush(f, 1, <<IF a = WordZero THEN WordOne ELSE WordZero>>, 1))
      [] op = \h30 -> Cont(PopPush(f, 0, <<ToWord(self)>>, 1))
      [] op = \h31 -> Cont(PopPush(f, 1, <<WordZero>>, 1))  \* BALANCE: all 0
      [] op = \h34 -> Cont(PopPush(f, 0, <<WordZero>>, 1))
      [] op = \h35 -> Cont(PopPush(f, 1, <<ReadAt(f.calldata, a, 32)>>, 1))
      [] op = \h36 -> Cont(PopPush(f, 0, <<U256From(Len(f.calldata))>>, 1))
      [] op \in {\h37, \h39} ->
            \* CALLDATACOPY, CODECOPY: destOffset, offset, size
            IF ~MemOK(a, c) THEN Halt("Error", <<>>)
            ELSE IF c = WordZero THEN Cont(PopPush(f, 3, <<>>, 1))
            ELSE LET src == IF op = \h37 THEN f.calldata ELSE f.code
                     g   == PopPush(f, 3, <<>>, 1)
                 IN Cont([g EXCEPT !.memory =
                            MemWrite(@, IntOf(a), ReadAt(src, b, IntOf(c)))])
      [] op = \h38 -> Cont(PopPush(f, 0, <<U256From(Len(f.code))>>, 1))
      [] op = \h3b ->
            \* EXTCODESIZE: loads the account with its code
            LET loaded_code == load_account_code(db, AddressFromWord(a))
            IN IF loaded_code.tag = "code_by_hash" THEN Todo("code_by_hash")
               ELSE Cont(PopPush(f, 1, <<U256From(Len(loaded_code.code))>>, 1))
      [] op = \h3d -> Cont(PopPush(f, 0, <<U256From(Len(f.returndata))>>, 1))
      [] op = \h3f -> Cont(PopPush(f, 1, <<WordZero>>, 1))  \* code_hash: ZERO
      [] op = \h40 ->
            IF block_hash_asked(a) THEN Todo("block_hash")
            ELSE Cont(PopPush(f, 1, <<WordZero>>, 1))
      [] op = \h3e ->
            \* RETURNDATACOPY: reading past the return data is an error
            IF ~(IsSmall(b) /\ IsSmall(c)
                 /\ IntOf(b) + IntOf(c) <= Len(f.returndata))
            THEN Halt("Error", <<>>)
            ELSE IF ~MemOK(a, c) THEN Halt("Error", <<>>)
            ELSE IF c = WordZero THEN Cont(PopPush(f, 3, <<>>, 1))
            ELSE LET g == PopPush(f, 3, <<>>, 1)
                 IN Cont([g EXCEPT !.memory =
                            MemWrite(@, IntOf(a),
                                     ReadPadded(f.returndata, IntOf(b), IntOf(c)))])
      [] op = \h50 -> Cont(PopPush(f, 1, <<>>, 1))
      [] op = \h51 ->
            IF ~MemOK(a, U256From(32)) THEN Halt("Error", <<>>)
            ELSE Cont(PopPush(f, 1, <<ReadPadded(f.memory, IntOf(a), 32)>>, 1))
      [] op = \h52 ->
            IF ~MemOK(a, U256From(32)) THEN Halt("Error", <<>>)
            ELSE LET g == PopPush(f, 2, <<>>, 1)
                 IN Cont([g EXCEPT !.memory = MemWrite(@, IntOf(a), b)])
      [] op = \h56 ->
            IF ValidJump(f.code, a)
            THEN Cont([PopPush(f, 1, <<>>, 0) EXCEPT !.pc = IntOf(a)])
            ELSE Halt("Error", <<>>)
      [] op = \h57 ->
            IF b = WordZero THEN Cont(PopPush(f, 2, <<>>, 1))
            ELSE IF ValidJump(f.code, a)
            THEN Cont([PopPush(f, 2, <<>>, 0) EXCEPT !.pc = IntOf(a)])
            ELSE Halt("Error", <<>>)
      [] op = \h58 -> Cont(PopPush(f, 0, <<U256From(f.pc)>>, 1))
      [] op = \h5a -> Cont(PopPush(f, 0, <<GasWord>>, 1))
      [] op = \h5b -> Cont(PopPush(f, 0, <<>>, 1))
      [] IsPush(op) ->
            LET n == op - \h5f
            IN Cont(PopPush(f, 0, <<ToWord(ReadPadded(f.code, f.pc + 1, n))>>,
                            n + 1))
      [] op \in \h80..\h8f ->
            Cont(PopPush(f, 0, <<Peek(f, op - \h7f)>>, 1))
      [] op \in \h90..\h9f ->
            LET n  == op - \h8f
                sz == Len(f.stack)
            IN Cont([f EXCEPT !.pc = @ + 1,
                              !.stack = [@ EXCEPT ![sz] = f.stack[sz - n],
                                                  ![sz - n] = f.stack[sz]]])
      [] op \in \ha0..\ha4 ->
            IF ~MemOK(a, b) THEN Halt("Error", <<>>)
            ELSE Cont(PopPush(f, op - \h9e, <<>>, 1))
      [] op \in {\hf3, \hfd} ->
            IF ~MemOK(a, b) THEN Halt("Error", <<>>)
            ELSE Halt(IF op = \hf3 THEN "Return" ELSE "Revert",
                      IF b = WordZero THEN <<>>
                      ELSE ReadPadded(f.memory, IntOf(a), IntOf(b)))
      [] op = \hff -> Halt("SelfDestruct", <<>>)
      [] op \in Unmodelled -> [kind |-> "unmodelled"]
      [] OTHER -> Halt("Error", <<>>)       \* INVALID and undefined opcodes

\* The CallInputs a call instruction hands to Inspector::call: CALL and
\* STATICCALL target the callee, DELEGATECALL and CALLCODE keep the caller's
\* own address as target and name the callee as bytecode_address.
CallInputsOf(f, self, shared) ==
    LET op    == OpAt(f)
        to    == AddressFromWord(Peek(f, 2))
        k     == IF op \in {\hf1, \hf2} THEN 1 ELSE 0   \* a value operand
        argsO == Peek(f, 3 + k)
        argsS == Peek(f, 4 + k)
        retO  == Peek(f, 5 + k)
        retS  == Peek(f, 6 + k)
    IN [scheme |-> CASE op = \hf1 -> "Call" [] op = \hf2 -> "CallCode"
                     [] op = \hf4 -> "DelegateCall" [] OTHER -> "StaticCall",
        target_address |-> IF op \in {\hf1, \hfa} THEN to ELSE self,
        bytecode_address |-> to,
        value |-> IF k = 1 THEN Peek(f, 3) ELSE WordZero,
        gas_limit |-> Peek(f, 1),
        args_offset |-> argsO, args_size |-> argsS,
        ret_offset |-> retO, ret_size |-> retS,
        input |-> IF shared
                  THEN [tag |-> "SharedBuffer"]
                  ELSE [tag |-> "Bytes",
                        bytes |-> IF argsS = WordZero THEN <<>>
                                  ELSE ReadPadded(f.memory, IntOf(argsO),
                                                  IntOf(argsS))]]

\* Whether the call instruction at pc can be issued at all.
CallReady(f) ==
    /\ Len(f.stack) >= Pops(OpAt(f))
    /\ LET k == IF OpAt(f) \in {\hf1, \hf2} THEN 1 ELSE 0
       IN MemOK(Peek(f, 3 + k), Peek(f, 4 + k))
          /\ MemOK(Peek(f, 5 + k), Peek(f, 6 + k))

----------------------------------------------------------------------------
(* detect.rs: the dynamic detector (StorageCallTaint) *)

\* EIP_1967_DEFAULT_STORAGE
EIP_1967_DEFAULT_STORAGE ==
    { [key |-> EIP_1967_ZOS_SLOT,    val |-> "Eip1967Zos"],
      [key |-> EIP_1967_SLOT,        val |-> "Eip1967"],
      [key |-> EIP_1967_BEACON_SLOT, val |-> "Eip1967Beacon"],
      [key |-> EIP_1822_SLOT,        val |-> "Eip1822"] }

\* The three probe calldatas of get_proxy.
calldata_detectors ==
    << << \haa, \hcc, \hbb, \hdd >>,
       << \hcc, \hbb, \hdd, \hf1, \hf1, \hf1, \hf1, \hf1, \hf1, \hf1 >>,
       << \h01, \h02, \h04, \h11 >> >>

\* A faulty identify_proxy_by_storage whose threshold includes 0x100.
identify_proxy_by_storage_ge(storage_) ==
    IF MapHas(EIP_1967_DEFAULT_STORAGE, storage_)
    THEN MapGet(EIP_1967_DEFAULT_STORAGE, storage_)
    ELSE IF ~U256Gt(U256From(256), storage_) THEN "Eip1967Custom"
    ELSE "Eip897"

\* StorageCallTaint::identify_proxy_by_storage
identify_proxy_by_storage(storage_) ==
    IF MapHas(EIP_1967_DEFAULT_STORAGE, storage_)
    THEN MapGet(EIP_1967_DEFAULT_STORAGE, storage_)
    ELSE IF U256Gt(storage_, U256From(256)) THEN "Eip1967Custom"
    ELSE "Eip897"

\* A faulty check_all_are_equal that compares the calls of the records and
\* not their storage reads.
check_all_are_equal_calls_only(data) ==
    \A i \in 1..Len(data) :
        /\ data[i].delegatecall_storage = data[1].delegatecall_storage
        /\ data[i].delegatecall_unknown = data[1].delegatecall_unknown
        /\ data[i].external_calls = data[1].external_calls

\* StorageCallTaint::check_all_are_equal
check_all_are_equal(data) == \A i \in 1..Len(data) : data[i] = data[1]

\* A faulty detect_proxy_from_data that looks for the Diamond base-slot
\* literal before it looks for the bytes 637a0ed627.
detect_proxy_from_data_slot_first(code_, data) ==
    LET consistent_execution == check_all_are_equal(data)
        d0 == data[1]
    IN IF consistent_execution
       THEN IF Len(d0.delegatecall_unknown) = 1
            THEN Detected("StaticAddress", Static(d0.delegatecall_unknown[1]))
            ELSE IF Len(d0.delegatecall_storage) = 1
            THEN LET storage_slot == d0.delegatecall_storage[1]
                 IN Detected(identify_proxy_by_storage(storage_slot),
                             Storage(storage_slot))
            ELSE IF Len(d0.external_calls) = 1
            THEN LET address == d0.external_calls[1][1]
                     fun     == d0.external_calls[1][2]
                 IN IF fun \in FUN_TO_PROXY
                    THEN Detected("External",
                                  [tag |-> "External", addr |-> address,
                                   fun |-> fun])
                    ELSE None
            ELSE None
       ELSE IF find_bytes(code_, DIAMOND_STANDARD_STORAGE_SLOT_LESSBYTES).tag
                 = "Some"
       THEN Detected("Eip2535", [tag |-> "DiamondStorage"])
       ELSE IF find_bytes(code_, DIAMOND_FACETS_MARKER).tag = "Some"
       THEN Detected("Eip2535", [tag |-> "DiamondFacets"])
       ELSE Detected("DiamondOther", [tag |-> "Unknown"])

\* StorageCallTaint::detect_proxy_from_data
detect_proxy_from_data(code_, data) ==
    LET consistent_execution == check_all_are_equal(data)
        d0 == data[1]
    IN IF consistent_execution
       THEN IF Len(d0.delegatecall_unknown) = 1
            THEN Detected("StaticAddress", Static(d0.delegatecall_unknown[1]))
            ELSE IF Len(d0.delegatecall_storage) = 1
            THEN LET storage_slot == d0.delegatecall_storage[1]
                 IN Detected(identify_proxy_by_storage(storage_slot),
                             Storage(storage_slot))
            ELSE IF Len(d0.external_calls) = 1
            THEN LET address == d0.external_calls[1][1]
                     fun     == d0.external_calls[1][2]
                 IN IF fun \in FUN_TO_PROXY
                    THEN Detected("External",
                                  [tag |-> "External", addr |-> address,
                                   fun |-> fun])
                    ELSE None
            ELSE None
       ELSE IF find_bytes(code_, DIAMOND_FACETS_MARKER).tag = "Some"
       THEN Detected("Eip2535", [tag |-> "DiamondFacets"])
       ELSE IF find_bytes(code_, DIAMOND_STANDARD_STORAGE_SLOT_LESSBYTES).tag
                 = "Some"
       THEN Detected("Eip2535", [tag |-> "DiamondStorage"])
       ELSE Detected("DiamondOther", [tag |-> "Unknown"])

\* A faulty chain that tries the next strategy whatever the last returned.
or_else_eager(r, next) ==
    IF r.tag = "Panic" THEN "panicked" ELSE next

\* get_proxy_type's or_else chain: the stage that follows a strategy's
\* result r, where next is the strategy tried when r is None.
or_else(r, next) ==
    IF r.tag = "Panic" THEN "panicked"
    ELSE IF r.tag = "Some" THEN "done"
    ELSE next

----------------------------------------------------------------------------
(* The analysed codes *)

\* How many of the addresses of AddrPool are placed in the patterns.
NumAddrs == 3

\* How deep calls of the contract to itself may nest before a call fails.
MaxDepth == 3

\* How many instructions one probe run may execute before it is out of gas.
StepLimit == 48

\* How many times the caller classifies the same code.
MaxCalls == 2

AddrBE == Repeat(\hbe, 20)

\* An address whose last four bytes are the masterCopy() selector.
AddrGnosis == Repeat(\h11, 16) \o GNOSIS_SAFE_MASTERCOPY_SELECTOR

AddrZero == Repeat(0, 20)

\* An address whose last four bytes are the comptrollerImplementation()
\* selector.
AddrCompound == Repeat(\h22, 16) \o COMPTROLLER_IMPL_SELECTOR

AddrPool == << AddrBE, AddrGnosis, AddrZero, AddrCompound >>

Addrs == {AddrPool[i] : i \in 1..Min(NumAddrs, Len(AddrPool))}

\* The static clone patterns: head, address width, tail, the minimum length
\* the matcher asks for, and the ProxyType it reports.
P1167Long  == [kind |-> "Eip1167", first |-> EIP_1667_LONG_FIRST_BYTES,
               asize |-> 20, second |-> EIP_1667_SECOND_BYTES, min |-> 45]

P1167Short == [kind |-> "Eip1167", first |-> EIP_1667_SHORT_FIRST_BYTES,
               asize |-> 16, second |-> EIP_1667_SECOND_BYTES, min |-> 41]

P7511Long  == [kind |-> "Eip7511", first |-> EIP_7511_LONG_FIRST_BYTES,
               asize |-> 20, second |-> EIP_7511_SECOND_BYTES, min |-> 44]

P7511Short == [kind |-> "Eip7511", first |-> EIP_7511_SHORT_FIRST_BYTES,
               asize |-> 16, second |-> EIP_7511_SECOND_BYTES, min |-> 40]

P3448Long  == [kind |-> "Eip3448", first |-> EIP_3448_LONG_FIRST_BYTES,
               asize |-> 20, second |-> EIP_3448_SECOND_BYTES, min |-> 44]

P3448Short == [kind |-> "Eip3448", first |-> EIP_3448_SHORT_FIRST_BYTES,
               asize |-> 16, second |-> EIP_3448_SECOND_BYTES, min |-> 44]

PZeroAge   == [kind |-> "ZeroAgeMinimal", first |-> ZERO_AGE_FIRST,
               asize |-> 20, second |-> ZERO_AGE_SECOND, min |-> 44]

PSolady    == [kind |-> "SoladyPush0", first |-> SOLADY_PUSH0_FIRST,
               asize |-> 20, second |-> SOLADY_PUSH0_SECOND, min |-> 44]

PVyper     == [kind |-> "VyperBeta", first |-> VYPER_BETA_FIRST,
               asize |-> 20, second |-> VYPER_BETA_SECOND, min |-> 46]

PSplits    == [kind |-> "ZeroXSplitsClones", first |-> ZERO_X_SPLITS_FIRST,
               asize |-> 20, second |-> ZERO_X_SPLITS_SECOND, min |-> 93]

\* Clones-with-immutable-args: the head, then the two bytes of the PUSH2
\* and ten more instructions up to the PUSH20, the address, the tail, and
\* seven bytes of immutable arguments.
PCwia      == [kind |-> "ClonesWithImmutableArgs",
               first |-> CWIA_FIRST \o << \h00, \h07, \h60, \h37, \h36, \h39,
                                          \h36, \h60, \h07, \h01, \h3d, \h73 >>,
               asize |-> 20,
               second |-> CWIA_SECOND \o Repeat(\h01, 7), min |-> 60]

LongPatterns ==
    {P1167Long, P7511Long, P3448Long, PZeroAge, PSolady, PVyper, PSplits, PCwia}

ShortPatterns == {P1167Short, P7511Short, P3448Short}

ClonePatterns == LongPatterns \cup ShortPatterns

\* The bytes a pattern embeds for address A: all 20, or the low 16.
Embedded(p, A) == SubSeq(A, 21 - p.asize, 20)

\* The code formed by placing A in the address slot of pattern p.
CloneCode(p, A) == p.first \o Embedded(p, A) \o p.second

Prefix(s, n) == SubSeq(s, 1, n)

\* An EIP-6551 account: an EIP-1167 clone of A followed by salt, chain id,
\* token contract and token id (128 bytes).
Code6551(A) ==
    CloneCode(P1167Long, A)
      \o Repeat(0, 32) \o U256From(1) \o ToWord(AddrBE) \o U256From(7)

FullCodes ==
    {CloneCode(p, A) : p \in ClonePatterns, A \in Addrs}
      \cup {Code6551(A) : A \in Addrs} \cup {SEQUENCE_WALLET_BYTECODE}

\* The prefixes one byte short of the minimum length the matcher asks for.
ShortByOne ==
    {Prefix(CloneCode(p, A), p.min - 1) : p \in ClonePatterns, A \in Addrs}
      \cup {Prefix(Code6551(A), EIP_6551_SIZE - 1) : A \in Addrs}
      \cup {Prefix(SEQUENCE_WALLET_BYTECODE, Len(SEQUENCE_WALLET_BYTECODE) - 1)}

\* The prefixes one byte short of head + address + tail.
CutTail ==
    {Prefix(CloneCode(p, A), Len(CloneCode(p, A)) - 1) :
        p \in ClonePatterns, A \in Addrs}

\* 2^160: a slot whose low 160 bits are those of slot 0.
Slot2p160 == [i \in 1..32 |-> IF i = 12 THEN 1 ELSE 0]

SlotPool ==
    {EIP_1967_ZOS_SLOT, EIP_1967_SLOT, EIP_1967_BEACON_SLOT, EIP_1822_SLOT,
     U256From(0), U256From(2), U256From(256), U256From(257), Slot2p160,
     Repeat(\hff, 32)}

\* PUSH0 x4, PUSH32 slot, SLOAD, GAS, DELEGATECALL, STOP: delegates to the
\* address read from slot.
StorageProxy(slot) ==
    << \h5f, \h5f, \h5f, \h5f, \h7f >> \o slot \o << \h54, \h5a, \hf4, \h00 >>

\* Delegates to the address 0x77 + 0x77, which it computes with ADD.
ComputedTarget ==
    << \h3d, \h3d, \h3d, \h3d, \h60, \h77, \h60, \h77, \h01, \h5a, \hf4, \h00 >>

\* Delegates twice to the literal address 0xee, then once to the address
\* read from slot 0.
MixedTargets ==
    << \h3d, \h3d, \h3d, \h3d, \h60, \hee, \h5a, \hf4, \h50,
       \h3d, \h3d, \h3d, \h3d, \h60, \hee, \h5a, \hf4, \h50,
       \h3d, \h3d, \h3d, \h3d, \h5f, \h54, \h5a, \hf4, \h00 >>

\* Delegates to the literal address that is the sentinel of slot 0, and only
\* then reads slot 0.
SentinelLiteral ==
    << \h3d, \h3d, \h3d, \h3d, \h73 >> \o AddressFromWord(ADDR_XOR)
      \o << \h5a, \hf4, \h50, \h5f, \h54, \h00 >>

\* Delegates to the address read from the slot named by the first calldata
\* word: the three probes read three different slots.
CalldataSlot == << \h5f, \h5f, \h5f, \h5f, \h5f, \h35, \h54, \h5a, \hf4, \h00 >>

\* MSTORE of a selector at 0, then a call of address 0xee with 4 bytes of
\* input: op is CALL (a value operand is pushed) or STATICCALL.
ExternalCall(selector, op) ==
    << \h7f >> \o selector \o Repeat(0, 28) \o << \h5f, \h52 >>
      \o << \h5f, \h5f, \h60, \h04, \h5f >>
      \o (IF op = \hf1 THEN << \h5f >> ELSE <<>>)
      \o << \h60, \hee, \h5a, op, \h00 >>

\* Called with calldata, calls itself with none and then delegates to 0xee;
\* called with none, stops.
SelfCallOnce ==
    << \h36, \h15, \h60, \h16, \h57,
       \h5f, \h5f, \h5f, \h5f, \h5f, \h30, \h5a, \hf1, \h50,
       \h3d, \h3d, \h3d, \h3d, \h60, \hee, \h5a, \hf4, \h5b, \h00 >>

\* Calls itself, always.
SelfCallForever ==
    << \h5f, \h5f, \h5f, \h5f, \h5f, \h30, \h5a, \hf1, \h00 >>

\* JUMPDEST, PUSH0, JUMP: loops until the gas is gone.
Loop == << \h5b, \h5f, \h56 >>

\* Delegates once to the literal address 0xee, then once to the address read
\* from slot 0.
OneLiteralOneStorage ==
    << \h3d, \h3d, \h3d, \h3d, \h60, \hee, \h5a, \hf4, \h50,
       \h3d, \h3d, \h3d, \h3d, \h5f, \h54, \h5a, \hf4, \h00 >>

\* Delegates once to the literal address 0xee, then twice to the address
\* read from slot 0.
OneLiteralTwoStorage ==
    << \h3d, \h3d, \h3d, \h3d, \h60, \hee, \h5a, \hf4, \h50,
       \h3d, \h3d, \h3d, \h3d, \h5f, \h54, \h5a, \hf4, \h50,
       \h3d, \h3d, \h3d, \h3d, \h5f, \h54, \h5a, \hf4, \h00 >>

\* Calls the address 0xee with the selector 0xcdffacc6, twice.
TwoExternalCalls ==
    LET once == ExternalCall(<< \hcd, \hff, \hac, \hc6 >>, \hf1)
    IN SubSeq(once, 1, Len(once) - 1) \o << \h50 >> \o once

\* Delegates to the literal addresses 0xee and 0xdd: in this order when the
\* calldata has 4 bytes, in the other order when it has not.
OrderByCalldata ==
    << \h60, \h04, \h36, \h03, \h60, \h19, \h57,
       \h3d, \h3d, \h3d, \h3d, \h60, \hee, \h5a, \hf4, \h50,
       \h3d, \h3d, \h3d, \h3d, \h60, \hdd, \h5a, \hf4, \h00,
       \h5b,
       \h3d, \h3d, \h3d, \h3d, \h60, \hdd, \h5a, \hf4, \h50,
       \h3d, \h3d, \h3d, \h3d, \h60, \hee, \h5a, \hf4, \h00 >>

\* Reads the slot named by the first calldata word and stops: the three
\* probes differ in the slot read and in nothing else.
CalldataSload == << \h5f, \h35, \h54, \h00 >>

\* BLOCKHASH of block 0 and of block 2^256 - 1, EXTCODESIZE of address 0xee,
\* of the contract itself and of the zero address, EXTCODEHASH of address 0,
\* BALANCE of the contract, each value dropped.
EnvironmentReads ==
    << \h5f, \h40, \h50, \h7f >> \o Repeat(\hff, 32) \o << \h40, \h50,
       \h60, \hee, \h3b, \h50, \h30, \h3b, \h50, \h5f, \h3b, \h50,
       \h5f, \h3f, \h50, \h30, \h31, \h50, \h00 >>

\* Reads slot 0 and keeps the value, reads slot 2^160 and drops the value,
\* then delegates to the value read from slot 0.
CollidingSlots ==
    << \h3d, \h3d, \h3d, \h3d, \h5f, \h54, \h74, \h01 >> \o Repeat(0, 20)
      \o << \h54, \h50, \h5a, \hf4, \h00 >>

\* MSTORE of a selector at 0, then a STATICCALL of the contract's own address
\* (ADDRESS) with 4 bytes of input.
StaticCallSelf(selector) ==
    << \h7f >> \o selector \o Repeat(0, 28) \o << \h5f, \h52 >>
      \o << \h5f, \h5f, \h60, \h04, \h5f, \h30, \h5a, \hfa, \h00 >>

\* MSTORE of a selector at 0, then a CALLCODE of address 0xee with 4 bytes of
\* input and no value.
CallCodeExternal(selector) ==
    << \h7f >> \o selector \o Repeat(0, 28) \o << \h5f, \h52 >>
      \o << \h5f, \h5f, \h60, \h04, \h5f, \h5f, \h60, \hee, \h5a, \hf2, \h00 >>

\* MSTORE of a selector at 0, then a CALL of address 0xee with only the first
\* 3 bytes of it as input.
ShortInputCall(selector) ==
    << \h7f >> \o selector \o Repeat(0, 28) \o << \h5f, \h52 >>
      \o << \h5f, \h5f, \h60, \h03, \h5f, \h5f, \h60, \hee, \h5a, \hf1, \h00 >>

Programs ==
    {StorageProxy(s) : s \in SlotPool}
      \cup {ComputedTarget, MixedTargets, SentinelLiteral, CalldataSlot,
            CollidingSlots, EnvironmentReads,
            StaticCallSelf(<< \hcd, \hff, \hac, \hc6 >>),
            CallCodeExternal(<< \hcd, \hff, \hac, \hc6 >>),
            ShortInputCall(<< \hcd, \hff, \hac, \hc6 >>),
            CalldataSlot \o DIAMOND_FACETS_MARKER,
            CalldataSlot \o DIAMOND_STANDARD_STORAGE_SLOT_LESSBYTES,
            CalldataSlot \o DIAMOND_STANDARD_STORAGE_SLOT_LESSBYTES
              \o DIAMOND_FACETS_MARKER,
            OneLiteralOneStorage, OneLiteralTwoStorage, TwoExternalCalls,
            OrderByCalldata, CalldataSload,
            ExternalCall(<< \hcd, \hff, \hac, \hc6 >>, \hf1),
            ExternalCall(<< \hcd, \hff, \hac, \hc6 >>, \hfa),
            ExternalCall(<< \h01, \h02, \h03, \h04 >>, \hf1),
            SelfCallOnce, SelfCallForever, Loop,
            <<>>, Repeat(\hff, 32),
            GNOSIS_SAFE_MASTERCOPY_SELECTOR, COMPTROLLER_IMPL_SELECTOR}

\* EIP-6551 accounts with one byte too many.
LongByOne == {Code6551(A) \o << 0 >> : A \in Addrs}

\* Every code the model classifies.
Codes == FullCodes \cup ShortByOne \cup CutTail \cup LongByOne \cup Programs

----------------------------------------------------------------------------
(* The initial state *)

\* A strategy or call that has not run (yet).
NotRun == [tag |-> "NotRun"]

Init ==
    /\ code \in Codes
    /\ shared_buffer \in BOOLEAN
    /\ session = 1
    /\ prev_result = NotRun
    /\ pc = "extended"
    /\ ext_res = NotRun
    /\ min_res = NotRun
    /\ dyn_res = NotRun
    /\ result = NotRun
    /\ runs = <<>>
    /\ db = NotRun
    /\ inspector = NotRun
    /\ frames = <<>>
    /\ loaded = {}
    /\ steps = 0
    /\ walk_address = NotRun
    /\ walk_pc = "off"
    /\ hops = 0
    /\ proxy_dispatch = NotRun
    /\ read_pc = "off"
    /\ reads = <<>>
    /\ facets = NotRun
    /\ proxy_impl = NotRun
    /\ args_block = None
    /\ fetched = <<>>

----------------------------------------------------------------------------
(* get_proxy_type, one strategy at a time *)

\* ExtendedStaticProxy::try_match(code), first in the or_else chain.
TryExtended ==
    /\ pc = "extended"
    /\ LET r == ExtendedStaticProxy_try_match(code)
       IN /\ ext_res' = r
          /\ pc' = or_else(r, "minimal")
          /\ result' = IF r.tag = "None" THEN result ELSE r
    /\ UNCHANGED << code, shared_buffer, session, prev_result, min_res,
                    dyn_res, runs, db, inspector, frames, loaded, steps >>
    /\ UNCHANGED io_vars

\* MinimalProxy::try_match(code), run when the extended shapes gave None.
TryMinimal ==
    /\ pc = "minimal"
    /\ LET r == MinimalProxy_try_match(code)
       IN /\ min_res' = r
          /\ pc' = or_else(r, "dynamic")
          /\ result' = IF r.tag = "None" THEN result ELSE r
    /\ UNCHANGED << code, shared_buffer, session, prev_result, ext_res,
                    dyn_res, runs, db, inspector, frames, loaded, steps >>
    /\ UNCHANGED io_vars

\* The innermost frame.
Top == frames[Len(frames)]

\* The contract under analysis (StorageCallTaint::new).
SelfAddress == DEFAULT_CONTRACT_ADDRESS

\* The transaction of trace_calldata as the call the inspector sees first.
TxCall(calldata) ==
    [scheme |-> "Call", target_address |-> SelfAddress,
     bytecode_address |-> SelfAddress, value |-> WordZero,
     gas_limit |-> GasWord, args_offset |-> WordZero,
     args_size |-> WordZero, ret_offset |-> WordZero, ret_size |-> WordZero,
     input |-> [tag |-> "Bytes", bytes |-> calldata]]

\* trace_calldata up to the first instruction: a new database with the code
\* installed, a new inspector, and the transaction's call.
StartRun ==
    /\ pc = "dynamic"
    /\ frames = <<>>
    /\ Len(runs) < Len(calldata_detectors)
    /\ LET calldata == calldata_detectors[Len(runs) + 1]
           db0 == install_contract(ProxyDetectDB_new(SelfAddress),
                                   SelfAddress, code)
           h   == ProxyInspector_call(ProxyInspector_new, db0, TxCall(calldata))
       IN /\ db' = h.db
          /\ inspector' = h.inspector
          /\ IF h.outcome.tag = "None"
             THEN /\ frames' = << NewFrame(basic(h.db, SelfAddress).code,
                                           calldata, 0, 0) >>
                  /\ runs' = runs
             ELSE /\ frames' = <<>>
                  /\ runs' = Append(runs, ProxyInspector_collect(h.inspector))
    /\ loaded' = {}
    /\ steps' = 0
    /\ UNCHANGED << code, shared_buffer, session, prev_result, pc, ext_res,
                    min_res, dyn_res, result >>
    /\ UNCHANGED io_vars

\* How the next instruction of frame f ends the frame, if it does.
HaltOf(f) ==
    IF steps >= StepLimit THEN Halt("OutOfGas", <<>>)
    ELSE IF IsCallOp(OpAt(f))
    THEN IF CallReady(f) THEN [kind |-> "none"] ELSE Halt("Error", <<>>)
    ELSE IF OpAt(f) = OP_SLOAD /\ f.stack # <<>> THEN [kind |-> "none"]
    ELSE LET e == Exec(f, SelfAddress)
         IN IF e.kind = "halt" THEN e ELSE [kind |-> "none"]

\* One instruction that is neither a call nor a halt: the inspector's step
\* hook, then the instruction.  SLOAD asks the database unless the journal
\* holds the slot already.
ExecStep ==
    /\ frames # <<>>
    /\ steps < StepLimit
    /\ ~IsCallOp(OpAt(Top))
    /\ inspector' = ProxyInspector_step(inspector, OpAt(Top), Top.stack)
    /\ IF OpAt(Top) = OP_SLOAD /\ Top.stack # <<>>
       THEN LET index == Peek(Top, 1)
                r     == storage(db, SelfAddress, index)
            IN /\ frames' = [frames EXCEPT ![Len(frames)] =
                                PopPush(Top, 1, << r.value >>, 1)]
               /\ db' = IF index \in loaded THEN db ELSE r.db
               /\ loaded' = loaded \cup {index}
       ELSE /\ Exec(Top, SelfAddress).kind = "next"
            /\ frames' = [frames EXCEPT ![Len(frames)] =
                             Exec(Top, SelfAddress).frame]
            /\ UNCHANGED << db, loaded >>
    /\ steps' = steps + 1
    /\ UNCHANGED << code, shared_buffer, session, prev_result, pc, ext_res,
                    min_res, dyn_res, result, runs >>
    /\ UNCHANGED io_vars

\* A call instruction: the step hook, then Inspector::call.  An intercepted
\* call returns at once with success and no data; a call the inspector lets
\* through runs the callee's code in a new frame, or fails when it carries
\* value the contract does not have or nests too deep.
ExecCall ==
    /\ frames # <<>>
    /\ steps < StepLimit
    /\ IsCallOp(OpAt(Top))
    /\ CallReady(Top)
    /\ LET ci     == CallInputsOf(Top, SelfAddress, shared_buffer)
           insp1  == ProxyInspector_step(inspector, OpAt(Top), Top.stack)
           h      == ProxyInspector_call(insp1, db, ci)
           popped == PopPush(Top, Pops(OpAt(Top)), <<>>, 1)
           answer(flag, out) ==
               [popped EXCEPT !.stack = Append(@, flag), !.returndata = out]
           args   == IF ci.args_size = WordZero THEN <<>>
                     ELSE ReadPadded(Top.memory, IntOf(ci.args_offset),
                                     IntOf(ci.args_size))
       IN /\ inspector' = h.inspector
          /\ db' = h.db
          /\ frames' =
               IF h.outcome.tag = "Some"
               THEN [frames EXCEPT ![Len(frames)] =
                        answer(WordOne, h.outcome.output)]
               ELSE IF ci.value # WordZero \/ Len(frames) >= MaxDepth
               THEN [frames EXCEPT ![Len(frames)] = answer(WordZero, <<>>)]
               ELSE Append([frames EXCEPT ![Len(frames)] = popped],
                           NewFrame(basic(h.db, ci.bytecode_address).code,
                                    args, IntOf(ci.ret_offset),
                                    IntOf(ci.ret_size)))
    /\ steps' = steps + 1
    /\ UNCHANGED << code, shared_buffer, session, prev_result, pc, ext_res,
                    min_res, dyn_res, result, runs, loaded >>
    /\ UNCHANGED io_vars

\* A frame of a nested call ends: the caller gets the success flag and the
\* output, copied to the return area it named.
FrameReturn ==
    /\ Len(frames) > 1
    /\ HaltOf(Top).kind = "halt"
    /\ LET e      == HaltOf(Top)
           parent == frames[Len(frames) - 1]
           ok     == e.how \in {"Stop", "Return", "SelfDestruct"}
           n      == Min(Top.ret_size, Len(e.output))
           mem1   == IF n = 0 \/ e.how \in {"Error", "OutOfGas"}
                     THEN parent.memory
                     ELSE MemWrite(parent.memory, Top.ret_offset,
                                   SubSeq(e.output, 1, n))
       IN frames' = Append(SubSeq(frames, 1, Len(frames) - 2),
                           [parent EXCEPT
                              !.stack = Append(@, IF ok THEN WordOne
                                                  ELSE WordZero),
                              !.returndata = e.output,
                              !.memory = mem1])
    /\ inspector' = ProxyInspector_step(inspector, OpAt(Top), Top.stack)
    /\ UNCHANGED << code, shared_buffer, session, prev_result, pc, ext_res,
                    min_res, dyn_res, result, runs, db, loaded, steps >>
    /\ UNCHANGED io_vars

\* The transaction's frame ends: trace_calldata collects the inspector's
\* record and get_proxy pushes it to runs.
RunEnd ==
    /\ Len(frames) = 1
    /\ HaltOf(Top).kind = "halt"
    /\ inspector' = ProxyInspector_step(inspector, OpAt(Top), Top.stack)
    /\ runs' = Append(runs, ProxyInspector_collect(inspector'))
    /\ frames' = <<>>
    /\ UNCHANGED << code, shared_buffer, session, prev_result, pc, ext_res,
                    min_res, dyn_res, result, db, loaded, steps >>
    /\ UNCHANGED io_vars

\* get_proxy after the three probes: detect_proxy_from_data, whose result
\* get_proxy_type returns.
Decide ==
    /\ pc = "dynamic"
    /\ frames = <<>>
    /\ Len(runs) = Len(calldata_detectors)
    /\ LET r == detect_proxy_from_data(code, runs)
       IN /\ dyn_res' = r
          /\ result' = r
    /\ pc' = "done"
    /\ UNCHANGED << code, shared_buffer, session, prev_result, ext_res,
                    min_res, runs, db, inspector, frames, loaded, steps >>
    /\ UNCHANGED io_vars

\* The caller classifies the same code once more.
Again ==
    /\ pc = "done"
    /\ session < MaxCalls
    /\ session' = session + 1
    /\ prev_result' = result
    /\ pc' = "extended"
    /\ ext_res' = NotRun
    /\ min_res' = NotRun
    /\ dyn_res' = NotRun
    /\ result' = NotRun
    /\ runs' = <<>>
    /\ UNCHANGED << code, shared_buffer, db, inspector, frames, loaded, steps >>
    /\ UNCHANGED io_vars

Next ==
    \/ TryExtended
    \/ TryMinimal
    \/ StartRun
    \/ ExecStep
    \/ ExecCall
    \/ FrameReturn
    \/ RunEnd
    \/ Decide
    \/ Again

Spec == Init /\ [][Next]_vars

----------------------------------------------------------------------------
(* Sanity of the model *)

\* No analysed code reaches an opcode the interpreter does not cover.
ModelCoversCode ==
    frames # <<>> /\ steps < StepLimit /\ ~IsCallOp(OpAt(Top))
        /\ ~(OpAt(Top) = OP_SLOAD /\ Top.stack # <<>>)
    => Exec(Top, SelfAddress).kind # "unmodelled"

----------------------------------------------------------------------------
(* read.rs: the implementation reader *)

\* Result<T, ProxyReadError>
Ok(v) == [tag |-> "Ok", value |-> v]

Err(e) == [tag |-> "Err", error |-> e]

\* ProxyReadError, as the reader uses it: UnknownProxy, ExternalProxy,
\* StorageNotAddress and RPCError (whose message is not modelled).
ProxyReadError == {"UnknownProxy", "ExternalProxy", "StorageNotAddress",
                   "RPCError"}

\* enum ProxyImplementation
Single(a) == [tag |-> "Single", addr |-> a]

Multiple(addrs) == [tag |-> "Multiple", addrs |-> addrs]

Facets(m) == [tag |-> "Facets", map |-> m]

\* Dispatch::MultipleStorage
MultipleStorage(slots) == [tag |-> "MultipleStorage", slots |-> slots]

\* ADDR_MASK_H256: the low 160 bits.
ADDR_MASK_H256 == Repeat(0, 12) \o Repeat(\hff, 20)

\* ru256_to_h256_be: the 32 bytes of u.to_be_bytes(), which is how a U256 is
\* kept here.
ru256_to_h256_be(u) == [i \in 1..32 |-> u[i]]

\* h256_to_raddress_unchecked: h256.as_fixed_bytes()[12..]
h256_to_raddress_unchecked(h256) == SubSeq(h256, 13, 32)

\* as_u32_le, as the two 16-bit halves of the u32 (high, low).
as_u32_le(array) ==
    << array[4] * 256 + array[3], array[2] * 256 + array[1] >>

\* A get_storage_at whose future resolved to the word w, or to an error.
Replied(w) == [tag |-> "Word", word |-> w]

Failed == [tag |-> "Failed"]

\* A faulty read_single_storage_implementation without the mask test.
read_single_storage_implementation_unmasked(reply) ==
    IF reply.tag = "Failed" THEN Err("RPCError")
    ELSE Ok(h256_to_raddress_unchecked(reply.word))

\* read_single_storage_implementation from the provider's reply on: map_err
\* and ?, then the mask test.
read_single_storage_implementation(reply) ==
    IF reply.tag = "Failed" THEN Err("RPCError")
    ELSE LET h256_value == reply.word
         IN IF BitAnd(h256_value, ADDR_MASK_H256) = h256_value
            THEN Ok(h256_to_raddress_unchecked(h256_value))
            ELSE Err("StorageNotAddress")

\* A faulty collect that drops the failed reads and keeps the rest.
collect_partial(results) ==
    LET ok(r) == r.tag = "Ok"
        good  == SelectSeq(results, ok)
    IN Ok([i \in 1..Len(good) |-> good[i].value])

\* A collect that fails with the error of the read that failed first in time
\* (as try_join_all would), not the first in the order of the slots.
collect_by_arrival(results) ==
    LET errs == {i \in 1..Len(results) : results[i].tag = "Err"}
    IN IF errs = {}
       THEN Ok([i \in 1..Len(results) |-> results[i].value])
       ELSE results[CHOOSE i \in errs :
                       \A j \in errs : reads[i].turn <= reads[j].turn]

\* Iterator::collect into Result<Vec<Address>, ProxyReadError>: the values
\* in order, or the first error in order.
collect(results) ==
    LET errs == {i \in 1..Len(results) : results[i].tag = "Err"}
    IN IF errs = {}
       THEN Ok([i \in 1..Len(results) |-> results[i].value])
       ELSE results[CHOOSE i \in errs : \A j \in errs : i <= j]

\* facets.iter().map(|v| v.1.iter().map(|v1| (v.0, as_u32_le(v1)))).flatten():
\* the (facet address, selector) pairs in the order of the reply.
RECURSIVE flatten(_)
flatten(fs) ==
    IF fs = <<>> THEN <<>>
    ELSE LET v == Head(fs)
         IN [j \in 1..Len(v.functionSelectors) |->
                << v.facetAddress, as_u32_le(v.functionSelectors[j]) >>]
            \o flatten(Tail(fs))

\* Iterator::collect into HashMap<Address, u32>: the pairs are inserted in
\* order, a later pair replacing an earlier one of the same key.
RECURSIVE collect_hashmap(_)
collect_hashmap(pairs) ==
    IF pairs = <<>> THEN {}
    ELSE LET last == pairs[Len(pairs)]
         IN MapInsert(collect_hashmap(SubSeq(pairs, 1, Len(pairs) - 1)),
                      last[1], last[2])

\* read_facet_list_from_function from the provider's reply to facets() on.
read_facet_list_from_function(reply) ==
    IF reply.tag = "Failed" THEN Err("RPCError")
    ELSE Ok(Facets(collect_hashmap(flatten(reply.facets))))

\* read_diamond_implementation: the stub.
read_diamond_implementation == Ok(Multiple(<<>>))

\* What an arm of get_proxy_implementation does before its first await: it
\* returns, or it issues provider calls and waits for them.
Returns(v) == [tag |-> "Returns", value |-> v]

Awaits(arm, slots) == [tag |-> "Awaits", arm |-> arm, slots |-> slots]

\* A match on a Dispatch value for which the match has no arm.
NoArm == [tag |-> "NoArm"]

\* A faulty get_proxy_implementation that answers an External dispatch with
\* the address it names, and an Unknown one with the zero address.
get_proxy_implementation_lenient(d) ==
    CASE d.tag = "Unknown"         -> Returns(Ok(Single(Repeat(0, 20))))
      [] d.tag = "Storage"         -> Awaits("storage", << d.slot >>)
      [] d.tag = "MultipleStorage" -> Awaits("multiple", d.slots)
      [] d.tag = "Static"          -> Returns(Ok(Single(d.addr)))
      [] d.tag = "DiamondFacets"   -> Awaits("facets", <<>>)
      [] d.tag = "DiamondStorage"  -> Returns(read_diamond_implementation)
      [] d.tag = "External"        -> Returns(Ok(Single(d.addr)))
      [] OTHER                     -> Returns(NoArm)

\* The match of get_proxy_implementation.  Its arms Facet_EIP_2535 and
\* FacetStorageSlot are read as the arms of the two Diamond dispatches,
\* DiamondFacets and DiamondStorage; SelfAddressSlot and Static6551 have no
\* arm.
get_proxy_implementation(d) ==
    CASE d.tag = "Unknown"         -> Returns(Err("UnknownProxy"))
      [] d.tag = "Storage"         -> Awaits("storage", << d.slot >>)
      [] d.tag = "MultipleStorage" -> Awaits("multiple", d.slots)
      [] d.tag = "Static"          -> Returns(Ok(Single(d.addr)))
      [] d.tag = "DiamondFacets"   -> Awaits("facets", <<>>)
      [] d.tag = "DiamondStorage"  -> Returns(read_diamond_implementation)
      [] d.tag = "External"        -> Returns(Err("ExternalProxy"))
      [] OTHER                     -> Returns(NoArm)

----------------------------------------------------------------------------
(* The reader's inputs and the provider's replies *)

\* How many slots a MultipleStorage dispatch names at most.
MaxSlots == 3

\* How many facets a reply to facets() holds at most.
MaxFacets == 2

\* How many selectors a facet carries at most.
MaxSelectors == 2

SeqsUpTo(S, n) == UNION {[1..k -> S] : k \in 0..n}

ReadSlots == {U256From(0), EIP_1967_SLOT}

\* The slot lists of up to MaxSlots slots that alternate between the two
\* slots.
SlotLists ==
    {[i \in 1..k |-> IF (i + first) % 2 = 0 THEN U256From(0)
                     ELSE EIP_1967_SLOT] :
        k \in 0..MaxSlots, first \in 0..1}

\* A word with one bit set in each of its high 12 bytes and an address below.
WordHigh == Repeat(1, 12) \o AddrBE

\* The words the provider may hold: an address, the zero word, and words
\* with bits above the low 160.
StorageWords == {ToWord(AddrBE), WordZero, Slot2p160, WordHigh}

StorageReplies == {Replied(w) : w \in StorageWords} \cup {Failed}

SelectorPool == { << \hcd, \hff, \hac, \hc6 >>, << \h01, \h02, \h03, \h04 >> }

FacetPool ==
    [facetAddress : {AddrBE, AddrGnosis},
     functionSelectors : SeqsUpTo(SelectorPool, MaxSelectors)]

FacetsReplies ==
    {[tag |-> "Facets", facets |-> fs] : fs \in SeqsUpTo(FacetPool, MaxFacets)}
      \cup {Failed}

Example6551 ==
    [tag |-> "Static6551", implementation |-> AddrBE,
     chain_id |-> U256From(1), token_contract |-> AddrBE,
     token_id |-> U256From(7)]

\* The Dispatch values get_proxy_implementation is called on.
ReaderDispatches ==
    {[tag |-> "Unknown"], [tag |-> "DiamondFacets"],
     [tag |-> "DiamondStorage"], [tag |-> "SelfAddressSlot"], Example6551}
      \cup {Storage(s) : s \in ReadSlots}
      \cup {MultipleStorage(l) : l \in SlotLists}
      \cup {Static(a) : a \in Addrs}
      \cup {[tag |-> "External", addr |-> a, fun |-> f] :
               a \in Addrs, f \in FUN_TO_PROXY \cup { << 0, 0 >> }}

----------------------------------------------------------------------------
(* get_proxy_implementation, one await at a time *)

\* get_proxy_implementation is called: the match, up to the arm's first
\* await.  The Storage arm issues one get_storage_at; join_all issues one
\* per slot of a MultipleStorage dispatch.
ReadCall ==
    /\ read_pc = "start"
    /\ LET m == get_proxy_implementation(proxy_dispatch)
       IN IF m.tag = "Returns"
          THEN /\ proxy_impl' = m.value
               /\ read_pc' = "done"
               /\ reads' = reads
          ELSE /\ proxy_impl' = proxy_impl
               /\ read_pc' = m.arm
               /\ reads' = [i \in 1..Len(m.slots) |->
                              [address |-> walk_address,
                               location |-> ru256_to_h256_be(m.slots[i]),
                               reply |-> NotRun, turn |-> 0]]
    /\ UNCHANGED << walk_address, walk_pc, hops, proxy_dispatch, facets >>
    /\ UNCHANGED detect_vars
    /\ UNCHANGED << args_block, fetched >>

\* How many of the reads issued have been answered.
Answered == Cardinality({i \in 1..Len(reads) : reads[i].reply.tag # "NotRun"})

\* The provider answers one of the outstanding get_storage_at calls, any of
\* them, with a word or with a failure; turn notes the order of arrival.
GetStorageAt ==
    /\ read_pc \in {"storage", "multiple"}
    /\ \E i \in 1..Len(reads), r \in StorageReplies :
          /\ reads[i].reply.tag = "NotRun"
          /\ reads' = [reads EXCEPT ![i].reply = r,
                                    ![i].turn = Answered + 1]
    /\ UNCHANGED << walk_address, walk_pc, hops, proxy_dispatch, read_pc,
                    facets, proxy_impl >>
    /\ UNCHANGED detect_vars
    /\ UNCHANGED << args_block, fetched >>

\* The Storage arm after its await.
StorageArm ==
    /\ read_pc = "storage"
    /\ reads[1].reply.tag # "NotRun"
    /\ LET r == read_single_storage_implementation(reads[1].reply)
       IN proxy_impl' = IF r.tag = "Ok" THEN Ok(Single(r.value)) ELSE r
    /\ read_pc' = "done"
    /\ UNCHANGED << walk_address, walk_pc, hops, proxy_dispatch, reads,
                    facets >>
    /\ UNCHANGED detect_vars
    /\ UNCHANGED << args_block, fetched >>

\* The MultipleStorage arm after join_all: every read has been answered.
MultipleStorageArm ==
    /\ read_pc = "multiple"
    /\ \A i \in 1..Len(reads) : reads[i].reply.tag # "NotRun"
    /\ LET addrs == collect([i \in 1..Len(reads) |->
                       read_single_storage_implementation(reads[i].reply)])
       IN proxy_impl' = IF addrs.tag = "Ok" THEN Ok(Multiple(addrs.value))
                        ELSE addrs
    /\ read_pc' = "done"
    /\ UNCHANGED << walk_address, walk_pc, hops, proxy_dispatch, reads,
                    facets >>
    /\ UNCHANGED detect_vars
    /\ UNCHANGED << args_block, fetched >>

\* The DiamondFacets arm: the provider answers the facets() call.
FacetsArm ==
    /\ read_pc = "facets"
    /\ \E r \in FacetsReplies :
          /\ facets' = r
          /\ proxy_impl' = read_facet_list_from_function(r)
    /\ read_pc' = "done"
    /\ UNCHANGED << walk_address, walk_pc, hops, proxy_dispatch, reads >>
    /\ UNCHANGED detect_vars
    /\ UNCHANGED << args_block, fetched >>

\* A caller of the library calls get_proxy_implementation on any Dispatch.
InitRead ==
    /\ code = <<>>
    /\ shared_buffer = FALSE
    /\ session = 1
    /\ prev_result = NotRun
    /\ pc = "off"
    /\ ext_res = NotRun
    /\ min_res = NotRun
    /\ dyn_res = NotRun
    /\ result = NotRun
    /\ runs = <<>>
    /\ db = NotRun
    /\ inspector = NotRun
    /\ frames = <<>>
    /\ loaded = {}
    /\ steps = 0
    /\ walk_address \in {AddrBE, AddrGnosis}
    /\ walk_pc = "off"
    /\ hops = 0
    /\ proxy_dispatch \in ReaderDispatches
    /\ read_pc = "start"
    /\ reads = <<>>
    /\ facets = NotRun
    /\ proxy_impl = NotRun
    /\ args_block = None
    /\ fetched = <<>>

NextRead ==
    \/ ReadCall
    \/ GetStorageAt
    \/ StorageArm
    \/ MultipleStorageArm
    \/ FacetsArm

SpecRead == InitRead /\ [][NextRead]_vars

----------------------------------------------------------------------------
(* bin/proxy_tools.rs: the walker *)

\* How many External dispatches the model lets the walker follow.
MaxHops == 9

\* The address whose low byte is b.
ByteAddr(b) == Repeat(0, 19) \o << b >>

\* MSTORE of the selector 0xcdffacc6 at 0, then a CALL of ByteAddr(target)
\* with 4 bytes of input.
ExternalCallTo(target) ==
    << \h7f, \hcd, \hff, \hac, \hc6 >> \o Repeat(0, 28) \o << \h5f, \h52 >>
      \o << \h5f, \h5f, \h60, \h04, \h5f, \h5f >>
      \o << \h60, target, \h5a, \hf1, \h00 >>

\* The code the provider holds at each address: 0xa1 and 0xa2 name each
\* other, 0xa3 names 0xa4, a storage proxy, 0xa5 names 0xa6, which has no
\* code, and 0xa7 names itself; then one contract of each other kind.
Chain ==
    {[key |-> ByteAddr(\ha1), val |-> ExternalCallTo(\ha2)],
     [key |-> ByteAddr(\ha2), val |-> ExternalCallTo(\ha1)],
     [key |-> ByteAddr(\ha3), val |-> ExternalCallTo(\ha4)],
     [key |-> ByteAddr(\ha4), val |-> StorageProxy(EIP_1967_SLOT)],
     [key |-> ByteAddr(\ha5), val |-> ExternalCallTo(\ha6)],
     [key |-> ByteAddr(\ha7), val |-> ExternalCallTo(\ha7)],
     [key |-> ByteAddr(\ha8), val |-> SelfCallOnce],
     [key |-> ByteAddr(\ha9), val |-> Loop],
     [key |-> ByteAddr(\haa), val |-> CalldataSlot \o DIAMOND_FACETS_MARKER],
     [key |-> ByteAddr(\hab), val |-> CalldataSlot],
     [key |-> ByteAddr(\hac), val |-> CloneCode(P1167Long, AddrBE)],
     [key |-> ByteAddr(\had), val |-> SEQUENCE_WALLET_BYTECODE]}

\* rpc.get_code: the code at an address, empty where there is no contract.
get_code(a) == IF MapHas(Chain, a) THEN MapGet(Chain, a) ELSE <<>>

\* The addresses the walker is started at.
StartAddresses == {e.key : e \in Chain} \cup {ByteAddr(\ha6)}

\* The values of the walker's optional --block argument.
Blocks == {None, [tag |-> "Some", number |-> 17]}

\* The head of the loop: get_code, which may fail (expect panics), the exit
\* on empty code, and the call of get_proxy_type.
Fetch ==
    /\ walk_pc = "fetch"
    /\ fetched' = Append(fetched, [address |-> walk_address,
                                   block |-> args_block])
    /\ \E answered \in BOOLEAN :
          IF ~answered
          THEN /\ walk_pc' = "panicked"
               /\ UNCHANGED << code, pc >>
          ELSE /\ code' = get_code(walk_address)
               /\ IF code' = <<>>
                  THEN /\ walk_pc' = "exit1"
                       /\ pc' = pc
                  ELSE /\ walk_pc' = "detect"
                       /\ pc' = "extended"
    /\ ext_res' = NotRun
    /\ min_res' = NotRun
    /\ dyn_res' = NotRun
    /\ result' = NotRun
    /\ runs' = <<>>
    /\ UNCHANGED << shared_buffer, session, prev_result, db, inspector,
                    frames, loaded, steps >>
    /\ UNCHANGED << walk_address, hops, proxy_dispatch, read_pc, reads,
                    facets, proxy_impl, args_block >>

\* get_proxy_type returned Some with an External dispatch: address is set to
\* the address it names and the loop continues.
Follow ==
    /\ walk_pc = "detect"
    /\ pc = "done"
    /\ result.tag = "Some"
    /\ result.dispatch.tag = "External"
    /\ hops < MaxHops
    /\ walk_address' = result.dispatch.addr
    /\ hops' = hops + 1
    /\ walk_pc' = "fetch"
    /\ UNCHANGED detect_vars
    /\ UNCHANGED << args_block, fetched >>
    /\ UNCHANGED << proxy_dispatch, read_pc, reads, facets, proxy_impl >>

\* A walker that hands every dispatch to get_proxy_implementation, External
\* ones too.
Resolve_any ==
    /\ walk_pc = "detect"
    /\ pc = "done"
    /\ result.tag = "Some"
    /\ proxy_dispatch' = result.dispatch
    /\ read_pc' = "start"
    /\ reads' = <<>>
    /\ facets' = NotRun
    /\ proxy_impl' = NotRun
    /\ walk_pc' = "read"
    /\ UNCHANGED detect_vars
    /\ UNCHANGED << args_block, fetched >>
    /\ UNCHANGED << walk_address, hops >>

\* get_proxy_type returned Some with any other dispatch: the walker calls
\* get_proxy_implementation on the current address and that dispatch.
Resolve ==
    /\ walk_pc = "detect"
    /\ pc = "done"
    /\ result.tag = "Some"
    /\ result.dispatch.tag # "External"
    /\ proxy_dispatch' = result.dispatch
    /\ read_pc' = "start"
    /\ reads' = <<>>
    /\ facets' = NotRun
    /\ proxy_impl' = NotRun
    /\ walk_pc' = "read"
    /\ UNCHANGED detect_vars
    /\ UNCHANGED << args_block, fetched >>
    /\ UNCHANGED << walk_address, hops >>

\* get_proxy_type returned None, and the walker says so and ends; or it
\* panicked, and the process with it.
Unidentified ==
    /\ walk_pc = "detect"
    /\ \/ pc = "done" /\ result.tag = "None" /\ walk_pc' = "unidentified"
       \/ pc = "panicked" /\ walk_pc' = "panicked"
    /\ UNCHANGED detect_vars
    /\ UNCHANGED << args_block, fetched >>
    /\ UNCHANGED << walk_address, hops, proxy_dispatch, read_pc, reads,
                    facets, proxy_impl >>

\* get_proxy_implementation returned: expect panics on an error, otherwise
\* the implementation is printed and the loop ends.
Report ==
    /\ walk_pc = "read"
    /\ read_pc = "done"
    /\ walk_pc' = IF proxy_impl.tag = "Ok" THEN "reported"
                  ELSE IF proxy_impl.tag = "Err" THEN "panicked"
                  ELSE "noarm"
    /\ UNCHANGED detect_vars
    /\ UNCHANGED << args_block, fetched >>
    /\ UNCHANGED << walk_address, hops, proxy_dispatch, read_pc, reads,
                    facets, proxy_impl >>

InitWalk ==
    /\ code = <<>>
    /\ shared_buffer \in BOOLEAN
    /\ session = 1
    /\ prev_result = NotRun
    /\ pc = "off"
    /\ ext_res = NotRun
    /\ min_res = NotRun
    /\ dyn_res = NotRun
    /\ result = NotRun
    /\ runs = <<>>
    /\ db = NotRun
    /\ inspector = NotRun
    /\ frames = <<>>
    /\ loaded = {}
    /\ steps = 0
    /\ walk_address \in StartAddresses
    /\ walk_pc = "fetch"
    /\ hops = 0
    /\ proxy_dispatch = NotRun
    /\ read_pc = "off"
    /\ reads = <<>>
    /\ facets = NotRun
    /\ proxy_impl = NotRun
    /\ args_block \in Blocks
    /\ fetched = <<>>

\* The walker, get_proxy_type and get_proxy_implementation.  get_proxy_type
\* constructs no MultipleStorage dispatch, so that arm of the reader is not
\* among the walker's steps.
NextWalk ==
    \/ Fetch
    \/ TryExtended
    \/ TryMinimal
    \/ StartRun
    \/ ExecStep
    \/ ExecCall
    \/ FrameReturn
    \/ RunEnd
    \/ Decide
    \/ Follow
    \/ Resolve
    \/ Unidentified
    \/ ReadCall
    \/ GetStorageAt
    \/ StorageArm
    \/ FacetsArm
    \/ Report

SpecWalk == InitWalk /\ [][NextWalk]_vars

----------------------------------------------------------------------------
(* Properties *)

\* get_proxy_type has returned or aborted.
Finished == pc \in {"done", "panicked"}

\* C1: for every static clone pattern (EIP-1167, EIP-7511, EIP-3448,
\* ZeroAge, Solady-PUSH0, Vyper-Beta, 0xSplits, Clones-With-Immutable-Args)
\* and every 20-byte address A, whatever its bytes, the code with A in the
\* pattern's address slot is classified by get_proxy_type with the pattern's
\* own ProxyType and dispatch Static(A).
C1_CloneClassifiedAsItsPattern ==
    \A p \in LongPatterns, A \in Addrs :
        (code = CloneCode(p, A) /\ Finished)
            => result = Detected(p.kind, Static(A))

\* An EIP-1167 clone of an ordinary address is classified as EIP-1167.
C1_Witness ==
    /\ code = CloneCode(P1167Long, AddrBE)
    /\ pc = "done"
    /\ result = Detected("Eip1167", Static(AddrBE))

OwnKinds(c) ==
    {p.kind : p \in {q \in ClonePatterns :
                        \E A \in Addrs : c = Prefix(CloneCode(q, A), q.min - 1)}}
      \cup (IF \E A \in Addrs : c = Prefix(Code6551(A), EIP_6551_SIZE - 1)
            THEN {"Eip6551"} ELSE {})
      \cup (IF c = Prefix(SEQUENCE_WALLET_BYTECODE,
                          Len(SEQUENCE_WALLET_BYTECODE) - 1)
            THEN {"SequenceWallet"} ELSE {})

C3_NeverAborts ==
    /\ pc # "panicked"
    /\ ext_res # Panic
    /\ min_res # Panic
    /\ Finished => result.tag \in {"Some", "None"}

\* A Solady-PUSH0 clone cut to the 44 bytes its guard asks for aborts.
C3_Witness ==
    /\ code = Prefix(CloneCode(PSolady, AddrBE), PSolady.min)
    /\ pc = "panicked"
    /\ ext_res = Panic

\* C4: get_proxy_type consults extended static shapes, then minimal clones,
\* then the dynamic detector, and returns the first Some; a later strategy
\* runs only if every earlier one returned None, and the interpreter never
\* runs for a code a static matcher classifies.
C4_StrategyOrder ==
    /\ min_res # NotRun => ext_res = None
    /\ (dyn_res # NotRun \/ runs # <<>> \/ frames # <<>> \/ pc = "dynamic")
          => (ext_res = None /\ min_res = None)
    /\ pc = "done" =>
          IF ext_res.tag = "Some"
          THEN result = ext_res /\ min_res = NotRun /\ dyn_res = NotRun
          ELSE IF min_res.tag = "Some"
          THEN result = min_res /\ ext_res = None /\ dyn_res = NotRun
          ELSE result = dyn_res /\ ext_res = None /\ min_res = None

\* The third strategy is reached and decides.
C4_Witness ==
    /\ pc = "done"
    /\ ext_res = None
    /\ min_res = None
    /\ dyn_res.tag = "Some"
    /\ result = dyn_res

\* C5: detection on an empty code returns None, without error, from the
\* static matchers, from the dynamic detector and from get_proxy_type.
C5_EmptyCodeIsNone ==
    code = <<>> =>
        /\ ext_res \in {NotRun, None}
        /\ min_res \in {NotRun, None}
        /\ dyn_res \in {NotRun, None}
        /\ pc # "panicked"
        /\ pc = "done" => (result = None /\ ext_res = None /\ min_res = None
                           /\ dyn_res = None /\ Len(runs) = 3)

\* The empty code went through all three strategies.
C5_Witness ==
    /\ code = <<>>
    /\ pc = "done"
    /\ dyn_res = None
    /\ result = None

\* C6: when the short (PUSH16) variant of EIP-1167, EIP-7511 or EIP-3448
\* matches, the address returned is the 16 embedded bytes preceded by 4 zero
\* bytes; when the long (PUSH20) variant matches, it is the 20 embedded bytes
\* unchanged; both variants give the same ProxyType.
C6_ShortVariantLeftPadded ==
    /\ \A p \in ShortPatterns, A \in Addrs :
          code = CloneCode(p, A) =>
             /\ MinimalProxy_try_match(code)
                  = Detected(p.kind, Static(Repeat(0, 4) \o SubSeq(A, 5, 20)))
             /\ min_res.tag = "Some" => min_res = MinimalProxy_try_match(code)
    /\ \A p \in {P1167Long, P7511Long, P3448Long}, A \in Addrs :
          code = CloneCode(p, A) =>
             /\ MinimalProxy_try_match(code) = Detected(p.kind, Static(A))
             /\ min_res.tag = "Some" => min_res = MinimalProxy_try_match(code)
    /\ {P1167Short.kind, P7511Short.kind, P3448Short.kind}
          = {"Eip1167", "Eip7511", "Eip3448"}

\* A short EIP-3448 clone is returned with its address left-padded.
C6_Witness ==
    /\ code = CloneCode(P3448Short, AddrBE)
    /\ pc = "done"
    /\ result = Detected("Eip3448", Static(Repeat(0, 4) \o Repeat(\hbe, 16)))

\* C7: whenever detection returns dispatch Static(a), the bytes of a were
\* copied verbatim from the code (the 20 bytes, or the 16 that a short
\* variant left-pads); in particular a (StaticAddress, Static(a)) result of
\* the dynamic detector has a as a contiguous 20-byte substring of the code.
C7_StaticIsVerbatim ==
    (pc = "done" /\ result.tag = "Some" /\ result.dispatch.tag = "Static") =>
        IF result.kind = "StaticAddress"
        THEN find_bytes(code, result.dispatch.addr).tag = "Some"
        ELSE \/ find_bytes(code, result.dispatch.addr).tag = "Some"
             \/ /\ SubSeq(result.dispatch.addr, 1, 4) = Repeat(0, 4)
                /\ find_bytes(code, SubSeq(result.dispatch.addr, 5, 20)).tag
                     = "Some"

\* The dynamic detector reports as Static an address the code computes.
C7_Witness ==
    /\ code = ComputedTarget
    /\ pc = "done"
    /\ result = Detected("StaticAddress",
                         Static(AddressFromWord(U256From(238))))

\* C8: whenever detection returns dispatch Storage(s), in each probe run
\* every DELEGATECALL target was a sentinel resolving to the same slot s: no
\* other target occurred and no DELEGATECALL resolved to another slot.
C8_StorageMeansOnlySentinels ==
    (pc = "done" /\ result.tag = "Some" /\ result.dispatch.tag = "Storage") =>
        \A i \in 1..Len(runs) :
            /\ runs[i].delegatecall_unknown = <<>>
            /\ \A j \in 1..Len(runs[i].delegatecall_storage) :
                  runs[i].delegatecall_storage[j] = result.dispatch.slot

\* Two delegations to a literal address and one to the address in slot 0
\* are reported as a slot-0 proxy.
C8_Witness ==
    /\ code = MixedTargets
    /\ pc = "done"
    /\ result = Detected("Eip897", Storage(U256From(0)))
    /\ Len(runs[1].delegatecall_unknown) = 2

\* C9: detection is deterministic: running the detector twice on the same
\* code gives the same detection, ProxyType and Dispatch alike.
C9_Deterministic ==
    (session > 1 /\ Finished) => (pc = "done" /\ result = prev_result)

\* The dynamic detector has classified the same code a second time.
C9_Witness ==
    /\ session = 2
    /\ pc = "done"
    /\ dyn_res.tag = "Some"
    /\ result = prev_result
    /\ code = SentinelLiteral

\* What C10 says each slot of SlotPool classifies as.
C10_Expected ==
    { << EIP_1967_ZOS_SLOT, "Eip1967Zos" >>, << EIP_1967_SLOT, "Eip1967" >>,
      << EIP_1967_BEACON_SLOT, "Eip1967Beacon" >>,
      << EIP_1822_SLOT, "Eip1822" >>,
      << U256From(0), "Eip897" >>, << U256From(2), "Eip897" >>,
      << U256From(256), "Eip897" >>, << U256From(257), "Eip1967Custom" >>,
      << Slot2p160, "Eip1967Custom" >>,
      << Repeat(\hff, 32), "Eip1967Custom" >> }

\* C10: identify_proxy_by_storage is total and single-valued: a registered
\* slot maps to its registered kind, any other slot to Eip1967Custom when it
\* is above 0x100 and to Eip897 otherwise, so slot 0x100 itself is Eip897.
C10_ClassifyTotal ==
    /\ SlotPool = {e[1] : e \in C10_Expected}
    /\ \A e \in C10_Expected :
          /\ identify_proxy_by_storage(e[1]) = e[2]
          /\ (code = StorageProxy(e[1]) /\ pc = "done")
                => result = Detected(e[2], Storage(e[1]))

\* A proxy on slot 0x100 is classified Eip897.
C10_Witness ==
    /\ code = StorageProxy(U256From(256))
    /\ pc = "done"
    /\ result = Detected("Eip897", Storage(U256From(256)))

\* get_proxy_implementation has returned.
ReadDone == read_pc = "done"

\* How many function selectors the facets of a reply carry in total.
RECURSIVE SelectorCount(_)
SelectorCount(fs) ==
    IF fs = <<>> THEN 0
    ELSE Len(Head(fs).functionSelectors) + SelectorCount(Tail(fs))

\* C11: reading a DiamondFacets dispatch, if facets() returns k facets that
\* carry n function selectors in total, the ProxyImplementation::Facets that
\* is returned has exactly n entries.
C11_FacetsHasOneEntryPerSelector ==
    (ReadDone /\ proxy_dispatch.tag = "DiamondFacets" /\ facets.tag = "Facets")
        => /\ proxy_impl.tag = "Ok"
           /\ proxy_impl.value.tag = "Facets"
           /\ Cardinality(proxy_impl.value.map) = SelectorCount(facets.facets)

\* One facet with two selectors has been read.
C11_Witness ==
    /\ ReadDone
    /\ proxy_dispatch.tag = "DiamondFacets"
    /\ facets.tag = "Facets"
    /\ Len(facets.facets) = 1
    /\ Len(facets.facets[1].functionSelectors) = 2
    /\ proxy_impl.tag = "Ok"
    /\ Cardinality(proxy_impl.value.map) = 1

\* The high 12 bytes of a storage word are zero.
HighBytesZero(w) == \A i \in 1..12 : w[i] = 0

\* C12: reading a Storage(s) dispatch asks the provider for the word at
\* (address, s) and returns Single(a) if and only if the word's high 12
\* bytes are zero, a being the word's low 20 bytes; a word with a nonzero
\* byte among its high 12 fails with StorageNotAddress, and a failed
\* provider call fails with an RPC error: no address is returned.
C12_StorageReadShape ==
    (ReadDone /\ proxy_dispatch.tag = "Storage")
        => LET read == reads[1]
           IN /\ Len(reads) = 1
              /\ read.address = walk_address
              /\ read.location = proxy_dispatch.slot
              /\ IF read.reply.tag = "Failed"
                 THEN proxy_impl = Err("RPCError")
                 ELSE IF HighBytesZero(read.reply.word)
                 THEN proxy_impl = Ok(Single(SubSeq(read.reply.word, 13, 32)))
                 ELSE proxy_impl = Err("StorageNotAddress")

\* A Storage read whose word is an address, left-padded, has returned it.
C12_Witness ==
    /\ ReadDone
    /\ proxy_dispatch.tag = "Storage"
    /\ reads[1].reply = Replied(ToWord(AddrBE))
    /\ proxy_impl = Ok(Single(AddrBE))

\* The i-th read got a word whose high 12 bytes are zero.
AddressShaped(i) ==
    reads[i].reply.tag = "Word" /\ HighBytesZero(reads[i].reply.word)

\* C13: reading a MultipleStorage(slots) dispatch issues one storage read
\* per slot, all of them before any is answered, and is all-or-error under
\* every order of the answers: it returns Multiple(addresses) only if every
\* read got an address-shaped word, and if any read fails (RPC error or
\* StorageNotAddress) the call fails and returns no list.
C13_MultipleStorageAllOrError ==
    /\ (read_pc = "multiple")
          => /\ Len(reads) = Len(proxy_dispatch.slots)
             /\ \A i \in 1..Len(reads) :
                   /\ reads[i].address = walk_address
                   /\ reads[i].location = proxy_dispatch.slots[i]
    /\ (ReadDone /\ proxy_dispatch.tag = "MultipleStorage")
          => /\ Len(reads) = Len(proxy_dispatch.slots)
             /\ \A i \in 1..Len(reads) : reads[i].reply.tag # "NotRun"
             /\ IF \A i \in 1..Len(reads) : AddressShaped(i)
                THEN proxy_impl =
                       Ok(Multiple([i \in 1..Len(reads) |->
                                       SubSeq(reads[i].reply.word, 13, 32)]))
                ELSE /\ proxy_impl.tag = "Err"
                     /\ proxy_impl.error \in {"RPCError", "StorageNotAddress"}

\* Three reads, answered last to first: the last one failed, the other two
\* got addresses, and the call has failed.
C13_Witness ==
    /\ ReadDone
    /\ proxy_dispatch.tag = "MultipleStorage"
    /\ Len(reads) = 3
    /\ reads[3].turn = 1 /\ reads[2].turn = 2 /\ reads[1].turn = 3
    /\ reads[3].reply = Failed
    /\ AddressShaped(1) /\ AddressShaped(2)
    /\ proxy_impl = Err("RPCError")

\* C14: the reader fails with ExternalProxy for every External(_, _)
\* dispatch and with UnknownProxy for the Unknown dispatch; in both cases it
\* returns no implementation, and it asks the provider nothing.
C14_ExternalAndUnknownFail ==
    /\ (ReadDone /\ proxy_dispatch.tag = "External")
          => (proxy_impl = Err("ExternalProxy") /\ reads = <<>>
                /\ facets.tag = "NotRun")
    /\ (ReadDone /\ proxy_dispatch.tag = "Unknown")
          => (proxy_impl = Err("UnknownProxy") /\ reads = <<>>
                /\ facets.tag = "NotRun")

\* The reader has refused an External dispatch that names the selector
\* 0xcdffacc6.
C14_Witness ==
    /\ ReadDone
    /\ proxy_dispatch.tag = "External"
    /\ proxy_dispatch.fun \in FUN_TO_PROXY
    /\ proxy_impl = Err("ExternalProxy")

\* The Dispatch variants get_proxy_type can return: those that
\* ExtendedStaticProxy, MinimalProxy and detect_proxy_from_data construct.
DetectedDispatchTags ==
    {"Static", "Static6551", "SelfAddressSlot", "Storage", "External",
     "DiamondFacets", "DiamondStorage", "Unknown"}

\* C15: for the SelfAddressSlot dispatch (the one a Sequence wallet is given)
\* the reader reads the slot whose key is the proxy's own address left-padded
\* with zeros to 32 bytes and returns Single of the word's low 20 bytes under
\* the address-shape check of Storage; and the reader handles every Dispatch
\* value that detection can return.
C15_SelfAddressSlotIsRead ==
    /\ (ReadDone /\ proxy_dispatch.tag = "SelfAddressSlot")
          => /\ Len(reads) = 1
             /\ reads[1].address = walk_address
             /\ reads[1].location = ToWord(walk_address)
             /\ IF reads[1].reply.tag = "Failed"
                THEN proxy_impl = Err("RPCError")
                ELSE IF HighBytesZero(reads[1].reply.word)
                THEN proxy_impl =
                       Ok(Single(SubSeq(reads[1].reply.word, 13, 32)))
                ELSE proxy_impl = Err("StorageNotAddress")
    /\ (ReadDone /\ proxy_dispatch.tag \in DetectedDispatchTags)
          => proxy_impl.tag \in {"Ok", "Err"}

\* The reader was called on SelfAddressSlot and its match had no arm for it.
C15_Witness ==
    /\ ReadDone
    /\ proxy_dispatch.tag = "SelfAddressSlot"
    /\ proxy_impl = NoArm
    /\ reads = <<>>

\* C16: the walker terminates from every starting address: it follows at
\* most a finite number of External hops, the documented default being 8,
\* and then stops, also when the External dispatches of the contracts it
\* visits form a cycle (A -> B -> A).
C16_WalkerStopsWithinEightHops == hops <= 8

\* The walker started at 0xa1, whose code names 0xa2, whose code names 0xa1,
\* is back at 0xa1 for the fifth time and about to classify its code again.
C16_Witness ==
    /\ hops = 8
    /\ walk_address = ByteAddr(\ha1)
    /\ walk_pc = "detect"
    /\ pc = "done"
    /\ result.tag = "Some"
    /\ result.dispatch = [tag |-> "External", addr |-> ByteAddr(\ha2),
                          fun |-> << \hcdff, \hacc6 >>]

\* The dynamic detector has decided on the records of the three probes.
Decided == dyn_res.tag # "NotRun" /\ Len(runs) = 3

\* Two run records agree on each of their four lists, element by element.
SameList(a, b) == Len(a) = Len(b) /\ \A i \in 1..Len(a) : a[i] = b[i]

SameRecord(a, b) ==
    /\ SameList(a.storage_access, b.storage_access)
    /\ SameList(a.delegatecall_storage, b.delegatecall_storage)
    /\ SameList(a.delegatecall_unknown, b.delegatecall_unknown)
    /\ SameList(a.external_calls, b.external_calls)

\* Records 2 and 3 both equal record 1.
Consistent == SameRecord(runs[2], runs[1]) /\ SameRecord(runs[3], runs[1])

\* The rules of the consistent case, on the first record.
StaticAddressRule ==
    Len(runs[1].delegatecall_unknown) = 1
        /\ Len(runs[1].delegatecall_storage) = 0

StorageRule == ~StaticAddressRule /\ Len(runs[1].delegatecall_storage) = 1

\* C17: when the three run records are equal, the dynamic detector returns
\* (StaticAddress, Static(t)) if and only if delegatecall_unknown has exactly
\* one entry t and delegatecall_storage is empty; with one target that is no
\* sentinel and exactly one storage-derived target the result is the Storage
\* rule's, (classify(slot), Storage(slot)), and not StaticAddress.
C17_StaticAddressNeedsNoStorageTarget ==
    (Decided /\ Consistent)
        => /\ (dyn_res.tag = "Some" /\ dyn_res.kind = "StaticAddress")
                 <=> StaticAddressRule
           /\ StaticAddressRule
                 => dyn_res = Detected("StaticAddress",
                                       Static(runs[1].delegatecall_unknown[1]))
           /\ (Len(runs[1].delegatecall_unknown) = 1
                 /\ Len(runs[1].delegatecall_storage) = 1)
                 => LET slot == runs[1].delegatecall_storage[1]
                    IN dyn_res = Detected(identify_proxy_by_storage(slot),
                                          Storage(slot))

\* The code that delegates once to a literal address and once to the address
\* read from slot 0 has been classified, on three equal records.
C17_Witness ==
    /\ code = OneLiteralOneStorage
    /\ Decided
    /\ Consistent
    /\ Len(runs[1].delegatecall_unknown) = 1
    /\ runs[1].delegatecall_storage = << U256From(0) >>
    /\ dyn_res = Detected("StaticAddress", Static(ByteAddr(\hee)))

\* C18: when the three run records are equal and neither the StaticAddress
\* rule nor the Storage rule applies, the dynamic detector returns
\* (External, External(addr, sel)) if and only if external_calls has exactly
\* one entry (addr, sel) and sel is in the known proxy-selector map
\* (0xcdffacc6); in every other consistent case, also when the code makes no
\* DELEGATECALL and no external call, it returns None.
C18_ExternalOrNone ==
    (Decided /\ Consistent /\ ~StaticAddressRule /\ ~StorageRule)
        => LET calls == runs[1].external_calls
           IN IF Len(calls) = 1 /\ calls[1][2] \in FUN_TO_PROXY
              THEN dyn_res = Detected("External",
                                      [tag |-> "External",
                                       addr |-> calls[1][1],
                                       fun |-> calls[1][2]])
              ELSE dyn_res = None

\* The code that delegates once to a literal address and twice to the
\* address read from slot 0 has been classified, on three equal records: no
\* rule of the consistent case applies to them.
C18_Witness ==
    /\ code = OneLiteralTwoStorage
    /\ Decided
    /\ Consistent
    /\ ~StaticAddressRule /\ ~StorageRule
    /\ runs[1].external_calls = <<>>
    /\ dyn_res.tag = "Some"

\* C19: when at least one pair of the three run records differs, the dynamic
\* detector always returns a detection, never None, chosen in this order:
\* (Eip2535, DiamondFacets) if the code contains the bytes 637a0ed627
\* anywhere; else (Eip2535, DiamondStorage) if the code contains the Diamond
\* base-slot literal; else (DiamondOther, Unknown).
C19_InconsistentIsDiamond ==
    (Decided /\ (\E i, j \in 1..3 : ~SameRecord(runs[i], runs[j])))
        => LET has(lit) == \E i \in 1..Len(code) :
                               i + Len(lit) - 1 <= Len(code)
                                   /\ SubSeq(code, i, i + Len(lit) - 1) = lit
           IN IF has(<< \h63, \h7a, \h0e, \hd6, \h27 >>)
              THEN dyn_res = Detected("Eip2535", [tag |-> "DiamondFacets"])
              ELSE IF has(DIAMOND_STANDARD_STORAGE_SLOT_LESSBYTES)
              THEN dyn_res = Detected("Eip2535", [tag |-> "DiamondStorage"])
              ELSE dyn_res = Detected("DiamondOther", [tag |-> "Unknown"])

\* A code whose probes read three different slots and that holds the base-slot
\* literal before the bytes 637a0ed627 has been classified DiamondFacets.
C19_Witness ==
    /\ code = CalldataSlot \o DIAMOND_STANDARD_STORAGE_SLOT_LESSBYTES
                \o DIAMOND_FACETS_MARKER
    /\ Decided
    /\ ~SameRecord(runs[1], runs[2])
    /\ dyn_res = Detected("Eip2535", [tag |-> "DiamondFacets"])

\* The detector took the three records for inconsistent: it answered as it
\* does only for a Diamond candidate.
TakenForInconsistent ==
    dyn_res.tag = "Some" /\ dyn_res.kind \in {"Eip2535", "DiamondOther"}

\* C20: two run records are equal if and only if all four lists
\* (storage_access, delegatecall_storage, delegatecall_unknown,
\* external_calls) are equal element by element in the same order, and the
\* three runs are consistent exactly when records 2 and 3 both equal
\* record 1: runs that observe the same events in a different order, or that
\* differ only in storage_access, are inconsistent.
C20_ConsistentIsListwiseEquality ==
    Decided => (TakenForInconsistent <=> ~Consistent)

\* The code that delegates to 0xee and 0xdd in an order that depends on the
\* calldata has been classified: the second probe saw the two targets of the
\* first in the other order, and nothing else differs.
C20_Witness ==
    /\ code = OrderByCalldata
    /\ Decided
    /\ runs[1].delegatecall_unknown = << ByteAddr(\hee), ByteAddr(\hdd) >>
    /\ runs[2].delegatecall_unknown = << ByteAddr(\hdd), ByteAddr(\hee) >>
    /\ runs[2].storage_access = runs[1].storage_access
    /\ runs[2].delegatecall_storage = runs[1].delegatecall_storage
    /\ runs[2].external_calls = runs[1].external_calls
    /\ TakenForInconsistent

----------------------------------------------------------------------------
(* The inspector's hooks, step by step *)

\* The sentinel the database answers for slot s, as a word.
SentinelOf(s) == BitXor(BitAnd(s, ADDR_MASK), ADDR_XOR)

\* The slots the run has read so far, in the order of the SLOADs.
SlotsRead == {inspector.storage_access[i] :
                 i \in 1..Len(inspector.storage_access)}

\* The next instruction is a call instruction of opcode op that can be issued:
\* the only step the run can take is ExecCall.
CallStep(op) ==
    /\ frames # <<>>
    /\ steps < StepLimit
    /\ OpAt(Top) = op
    /\ CallReady(Top)

\* The address operand of a call instruction about to be issued.
CallTarget == AddressFromWord(Peek(Top, 2))

\* C21: every DELEGATECALL whose target is the low 160 bits of the value an
\* earlier storage read of slot s returned in the same run appends exactly s
\* to delegatecall_storage, whatever other slots were read before or after.
C21_DelegateToSentinelRecordsItsSlot ==
    [][CallStep(\hf4) =>
         \A s \in SlotsRead :
            CallTarget = AddressFromWord(SentinelOf(s)) =>
               inspector'.delegatecall_storage =
                  Append(inspector.delegatecall_storage, s)]_vars

\* A DELEGATECALL to the sentinel of slot 0 was intercepted after the run read
\* slot 0 and then slot 2^160, which has the same low 160 bits.
C21_Witness ==
    /\ frames # <<>>
    /\ inspector.storage_access = << WordZero, Slot2p160 >>
    /\ Len(inspector.delegatecall_storage) = 1
    /\ db.delegatecalls # <<>>
    /\ db.delegatecalls[1] = AddressFromWord(SentinelOf(WordZero))

\* The next instruction is an SLOAD with a slot on the stack: the only step the
\* run can take is ExecStep, which asks the database for the slot.
SloadStep ==
    /\ frames # <<>>
    /\ steps < StepLimit
    /\ OpAt(Top) = OP_SLOAD
    /\ Top.stack # <<>>

\* 0xc1d50e94dbe44a2e3595f7d5311d788076ac6188, as 20 bytes.
MASK ==
    << \hc1, \hd5, \h0e, \h94, \hdb, \he4, \h4a, \h2e, \h35, \h95,
       \hf7, \hd5, \h31, \h1d, \h78, \h80, \h76, \hac, \h61, \h88 >>

\* The low 160 bits of a word, as a word.
Low160(w) == Repeat(0, 12) \o SubSeq(w, 13, 32)

\* C22: a storage read of slot index returns (index AND (2^160 - 1)) XOR MASK,
\* whatever was read before, and the sentinel map then holds sentinel -> index
\* for a slot read for the first time; the result XOR MASK is index mod 2^160,
\* the result differs from index mod 2^160 and fits in 160 bits, and two slots
\* read in a run have the same sentinel exactly when their low 160 bits agree.
C22_SentinelArithmetic ==
    [][SloadStep =>
         LET index  == Peek(Top, 1)
             returned == Peek(Top', 1)
         IN /\ returned = Repeat(0, 12)
                          \o [i \in 1..20 |-> XorBits(index[12 + i], MASK[i], 8)]
            /\ BitXor(returned, ToWord(MASK)) = Low160(index)
            /\ returned # Low160(index)
            /\ HighBytesZero(returned)
            /\ MapHas(db'.values_to_storage, AddressFromWord(returned))
            /\ index \notin loaded =>
                 MapGet(db'.values_to_storage, AddressFromWord(returned)) = index
            /\ \A other \in SlotsRead :
                 (SentinelOf(other) = returned) <=> (Low160(other) = Low160(index))
       ]_vars

\* A run has read a slot with bits above the low 160 (the EIP-1967 slot) and
\* holds its sentinel on the stack.
C22_Witness ==
    /\ frames # <<>>
    /\ inspector.storage_access = << EIP_1967_SLOT >>
    /\ Top.stack # <<>>
    /\ Peek(Top, 1) = SentinelOf(EIP_1967_SLOT)
    /\ MapHas(db.values_to_storage, AddressFromWord(Peek(Top, 1)))

\* The number of entries in the inspector's two delegatecall lists.
DelegateEntries ==
    Len(inspector.delegatecall_storage) + Len(inspector.delegatecall_unknown)

\* C23: every DELEGATECALL appends exactly one entry to exactly one list: the
\* slot the sentinel map holds for the target to delegatecall_storage when the
\* target is a key of the map at that moment, the target to delegatecall_unknown
\* otherwise; it leaves storage_access and external_calls unchanged, and no
\* other step of a run changes the two lists, so that their lengths add up to
\* the number of DELEGATECALLs intercepted (the database's delegatecalls list
\* gets two entries for each).
C23_OneEntryPerDelegateCall ==
    /\ [][frames # <<>> /\ frames' # <<>> =>
            IF CallStep(\hf4)
            THEN /\ IF MapHas(db.values_to_storage, CallTarget)
                    THEN /\ inspector'.delegatecall_storage =
                              Append(inspector.delegatecall_storage,
                                     MapGet(db.values_to_storage, CallTarget))
                         /\ inspector'.delegatecall_unknown =
                              inspector.delegatecall_unknown
                    ELSE /\ inspector'.delegatecall_unknown =
                              Append(inspector.delegatecall_unknown, CallTarget)
                         /\ inspector'.delegatecall_storage =
                              inspector.delegatecall_storage
                 /\ inspector'.storage_access = inspector.storage_access
                 /\ inspector'.external_calls = inspector.external_calls
            ELSE /\ inspector'.delegatecall_storage =
                      inspector.delegatecall_storage
                 /\ inspector'.delegatecall_unknown =
                      inspector.delegatecall_unknown]_vars
    /\ [](frames # <<>> => 2 * DelegateEntries = Len(db.delegatecalls))

\* A run has intercepted three DELEGATECALLs, two to a literal address and one
\* to a sentinel.
C23_Witness ==
    /\ frames # <<>>
    /\ Len(inspector.delegatecall_unknown) = 2
    /\ Len(inspector.delegatecall_storage) = 1
    /\ Len(db.delegatecalls) = 6

\* The calldata a call instruction about to be issued passes: the bytes of the
\* caller's memory its operands name.
CallData == CallInputsOf(Top, SelfAddress, FALSE).input.bytes

\* C24: a CALL, CALLCODE or STATICCALL whose target is not the contract under
\* analysis and whose calldata has at least 4 bytes appends (target, big-endian
\* u32 of the first 4 calldata bytes) to external_calls; a call of any of the
\* three schemes to the contract under analysis, and a call with fewer than 4
\* calldata bytes, appends nothing.
C24_ExternalCallsRecorded ==
    [][\A op \in {\hf1, \hf2, \hfa} :
          CallStep(op) =>
             IF CallTarget # SelfAddress /\ Len(CallData) >= 4
             THEN inspector'.external_calls =
                     Append(inspector.external_calls,
                            << CallTarget, slice_as_u32_be(CallData) >>)
             ELSE inspector'.external_calls = inspector.external_calls]_vars

\* A STATICCALL of the contract's own address with 4 bytes of calldata was
\* intercepted and recorded.
C24_Witness ==
    /\ code = StaticCallSelf(<< \hcd, \hff, \hac, \hc6 >>)
    /\ frames # <<>>
    /\ Top.stack = << WordOne >>
    /\ inspector.external_calls = << << SelfAddress, << \hcdff, \hacc6 >> >> >>

\* The frame on top after a call instruction returned on the spot with the
\* given flag: the operands popped, the flag pushed, no return data.
ReturnedAtOnce(flag) ==
    /\ Len(frames') = Len(frames)
    /\ Top'.pc = Top.pc + 1
    /\ Top'.stack =
         Append(SubSeq(Top.stack, 1, Len(Top.stack) - Pops(OpAt(Top))), flag)
    /\ Top'.returndata = <<>>
    /\ Top'.memory = Top.memory

\* C25: every subcall the inspector intercepts returns synthetically: result
\* Return, no output, gas equal to the call's gas limit; the callee's code is
\* not run and the caller continues with success.  The one exception is a CALL
\* of the analysed contract itself: nothing is recorded for it and no outcome
\* is made up, so the call runs (or fails for want of depth or balance).
C25_SubcallsReturnSynthetically ==
    [][\A op \in {\hf1, \hf2, \hf4, \hfa} :
          CallStep(op) =>
             LET ci == CallInputsOf(Top, SelfAddress, shared_buffer)
                 h  == ProxyInspector_call(inspector, db, ci)
             IN IF op = \hf1 /\ CallTarget = SelfAddress
                THEN /\ h.outcome = None
                     /\ inspector' = inspector
                     /\ db' = db
                     /\ \/ /\ Len(frames') = Len(frames) + 1
                           /\ Top'.code = code
                           /\ Top'.pc = 0
                        \/ /\ ci.value # WordZero \/ Len(frames) >= MaxDepth
                           /\ ReturnedAtOnce(WordZero)
                ELSE /\ h.outcome.tag = "Some"
                     /\ h.outcome.result = "Return"
                     /\ h.outcome.output = <<>>
                     /\ h.outcome.gas = ci.gas_limit
                     /\ ReturnedAtOnce(WordOne)]_vars

\* A run was let into a CALL of its own contract, which ran and returned, and
\* then a DELEGATECALL of address 0xee returned at once.
C25_Witness ==
    /\ code = SelfCallOnce
    /\ Len(frames) = 1
    /\ Top.stack # <<>>
    /\ Peek(Top, 1) = WordOne
    /\ inspector.delegatecall_unknown = << ByteAddr(\hee) >>
    /\ inspector.external_calls = <<>>

RunStarting == frames # <<>> /\ steps = 0

\* The codes of the model whose execution does not look at the calldata and
\* ends within the gas of a run.
CalldataBlind ==
    {StorageProxy(s) : s \in SlotPool}
      \cup {SentinelLiteral, MixedTargets, CollidingSlots, ComputedTarget}

\* C27: the three probe runs happen one after the other and are independent:
\* each starts with a new database (empty sentinel map, no delegatecalls, only
\* the analysed code installed, at the contract address) and a new inspector
\* with four empty lists, whatever the runs before it recorded; so a code that
\* does not look at its calldata gets three equal records.
C27_RunsStartFresh ==
    /\ frames # <<>> => Len(runs) < Len(calldata_detectors)
    /\ RunStarting =>
         /\ db.contract_address = SelfAddress
         /\ db.code = {[key |-> SelfAddress, val |-> code]}
         /\ db.values_to_storage = {}
         /\ db.delegatecalls = <<>>
         /\ inspector.storage_access = <<>>
         /\ inspector.delegatecall_storage = <<>>
         /\ inspector.delegatecall_unknown = <<>>
         /\ inspector.external_calls = <<>>
         /\ Len(frames) = 1
         /\ Top.calldata = calldata_detectors[Len(runs) + 1]
    /\ code \in CalldataBlind => \A i \in 1..Len(runs) : runs[i] = runs[1]

\* The third run of a code is starting after two runs that recorded a storage
\* read and a DELEGATECALL each.
C27_Witness ==
    /\ RunStarting
    /\ Len(runs) = 2
    /\ runs[1].storage_access # <<>>
    /\ runs[2].delegatecall_storage # <<>>

----------------------------------------------------------------------------
(* EIP-6551 accounts *)

\* The code starts with the EIP-1167 head 363d3d373d3d3d363d73, 20 bytes of
\* address and the EIP-1167 tail 5af43d82803e903d91602b57fd5bf3.
HeadAndTail1167(c) ==
    /\ Len(c) >= 45
    /\ SubSeq(c, 1, 10) =
         << \h36, \h3d, \h3d, \h37, \h3d, \h3d, \h3d, \h36, \h3d, \h73 >>
    /\ SubSeq(c, 31, 45) =
         << \h5a, \hf4, \h3d, \h82, \h80, \h3e, \h90, \h3d, \h91, \h60, \h2b,
            \h57, \hfd, \h5b, \hf3 >>

\* The classification of an EIP-6551 account of 173 bytes: the fields at their
\* byte offsets, those of the trailer counted from byte 45 of the code.
Account6551(c) ==
    LET trailer == SubSeq(c, 46, 173)
    IN Detected("Eip6551",
                [tag |-> "Static6551",
                 implementation |-> SubSeq(c, 11, 30),
                 chain_id |-> SubSeq(trailer, 33, 64),
                 token_contract |-> SubSeq(trailer, 77, 96),
                 token_id |-> SubSeq(trailer, 97, 128)])

\* C28: a code of exactly 173 bytes with the EIP-1167 head and tail around a
\* 20-byte address is classified (Eip6551, Static6551 {implementation =
\* code[10..30], chain_id = trailer[32..64], token_contract = trailer[76..96],
\* token_id = trailer[96..128]}) with trailer = code[45..173], by the first
\* strategy, and never Eip1167; a code with the same head and tail and any
\* other length is never classified Eip6551.
C28_Eip6551ByExactLength ==
    IF HeadAndTail1167(code) /\ Len(code) = 173
    THEN /\ ext_res \in {NotRun, Account6551(code)}
         /\ min_res = NotRun
         /\ dyn_res = NotRun
         /\ pc # "panicked"
         /\ pc = "done" => result = Account6551(code)
    ELSE \A r \in {ext_res, min_res, dyn_res, result} :
            r.tag = "Some" => r.kind # "Eip6551"

\* An EIP-6551 account of the address 0xbebe..be was classified, with chain
\* id 1 and token id 7.
C28_Witness ==
    /\ code = Code6551(AddrBE)
    /\ pc = "done"
    /\ result.tag = "Some"
    /\ result.kind = "Eip6551"
    /\ result.dispatch.implementation = AddrBE
    /\ result.dispatch.chain_id = U256From(1)
    /\ result.dispatch.token_contract = AddrBE
    /\ result.dispatch.token_id = U256From(7)

----------------------------------------------------------------------------
(* The walker's iterations *)

\* get_proxy_type is running or has returned in the current iteration.
Detecting == pc \in {"extended", "minimal", "dynamic", "done", "panicked"}

\* get_proxy_type has returned Some with the given kind of dispatch and the
\* walker has not acted on it yet.
DetectedDispatch(external) ==
    /\ walk_pc = "detect"
    /\ pc = "done"
    /\ result.tag = "Some"
    /\ (result.dispatch.tag = "External") = external

\* The walker has ended, one way or the other.
WalkEnded ==
    walk_pc \in {"exit1", "unidentified", "reported", "noarm", "panicked"}

----------------------------------------------------------------------------
(* Concurrent storage reads *)

\* What the read of slot i came to, from its reply alone: the address in the
\* low 20 bytes of an address-shaped word, or the error.
SlotResult(i) ==
    IF reads[i].reply.tag = "Failed" THEN Err("RPCError")
    ELSE IF HighBytesZero(reads[i].reply.word)
    THEN Ok(SubSeq(reads[i].reply.word, 13, 32))
    ELSE Err("StorageNotAddress")

\* The slots whose read failed.
FailedSlots == {i \in 1..Len(reads) : SlotResult(i).tag = "Err"}

\* C30: for a MultipleStorage(slots) dispatch the outcome is determined by the
\* per-slot results, in whatever order the concurrent reads complete: every
\* read has been answered when the call returns; on success the addresses are
\* in the order of slots; on failure the error is that of the failing slot of
\* lowest index.
C30_OutcomeIgnoresCompletionOrder ==
    (ReadDone /\ proxy_dispatch.tag = "MultipleStorage") =>
        /\ Len(reads) = Len(proxy_dispatch.slots)
        /\ \A i \in 1..Len(reads) :
              /\ reads[i].reply.tag # "NotRun"
              /\ reads[i].location = proxy_dispatch.slots[i]
        /\ IF FailedSlots = {}
           THEN proxy_impl =
                  Ok(Multiple([i \in 1..Len(reads) |-> SlotResult(i).value]))
           ELSE proxy_impl =
                  SlotResult(CHOOSE i \in FailedSlots :
                                \A j \in FailedSlots : i <= j)

\* Three reads: the third failed first with an RPC error, the first was
\* answered last with a word that is no address, and the call failed with the
\* error of the first.
C30_Witness ==
    /\ ReadDone
    /\ proxy_dispatch.tag = "MultipleStorage"
    /\ Len(reads) = 3
    /\ reads[3].turn = 1 /\ reads[3].reply = Failed
    /\ reads[1].turn = 3 /\ reads[1].reply = Replied(WordHigh)
    /\ proxy_impl = Err("StorageNotAddress")

====
